---- MODULE Spec2Model ----
(***************************************************************************)
(* Conflict detection and resolution engine of vscode-janus-debug         *)
(* (src/src/helpers.ts): the annotation pass readHashValues, the resolver  *)
(* askForUpload, the batch coordinator ensureForceUpload and the hash      *)
(* cache updater updateHashValues; and the upload decision on save,        *)
(* ensureUploadOnSave.  The login (src/unnamed/part_000):                  *)
(* loadConfigFile, ensureLoginInformation, getLoginData, askForLoginData,  *)
(* askForPassword and createLaunchJson.  The server console                *)
(* (src/src/extension.ts): reconnectServerConsole and its callers.         *)
(*                                                                         *)
(* Strings that the code splits, joins or trims (script names, servers,    *)
(* hashes, cache lines, the cache file) are sequences of one-character     *)
(* strings.  A value that may be undefined is a record [def, val].         *)
(* A batch is a list of distinct script objects with distinct names; the   *)
(* arrays noConflict and forceUpload hold references to these objects,     *)
(* modelled as positions in the input array.                               *)
(***************************************************************************)
EXTENDS Integers, Sequences, FiniteSets, TLC

\* ------------------------------------------------------------------ bounds
MaxScripts == 3
\* calls of readConflictModes, readHashValues and updateHashValues in CacheSpec
MaxCalls == 3
\* ensureForceUpload invocations started in InvSpec
MaxInvocations == 3

\* --------------------------------------------------------------- constants
FORCE_UPLOAD_YES == "Yes"
FORCE_UPLOAD_NO == "No"
FORCE_UPLOAD_ALL == "Yes (remember my answer for this operation)"
FORCE_UPLOAD_NONE == "No (remember my answer for this operation)"
NO_CONFLICT == "No conflict"
\* showQuickPick returns undefined when the prompt is dismissed
NoSelection == "undefined"

\* ----------------------------------------------------------------- strings
NL == "\n"
Colon == ":"
At == "@"
Whitespace == {NL, " "}

Undefined == [def |-> FALSE, val |-> <<>>]
Str(s) == [def |-> TRUE, val |-> s]
\* JavaScript truthiness of an optional string
Truthy(h) == h.def /\ h.val # <<>>
\* string concatenation with a possibly undefined operand
ToStr(h) == IF h.def THEN h.val ELSE <<"u", "n", "d", "e", "f", "i", "n", "e", "d">>

RECURSIVE Split(_, _)
Split(s, sep) ==
    IF \A k \in 1..Len(s) : s[k] # sep
    THEN <<s>>
    ELSE LET k == CHOOSE k \in 1..Len(s) : s[k] = sep /\ \A m \in 1..(k-1) : s[m] # sep
         IN <<SubSeq(s, 1, k-1)>> \o Split(SubSeq(s, k+1, Len(s)), sep)

RECURSIVE Join(_, _)
Join(parts, sep) ==
    IF parts = <<>> THEN <<>>
    ELSE IF Len(parts) = 1 THEN parts[1]
    ELSE parts[1] \o <<sep>> \o Join(Tail(parts), sep)

RECURSIVE TrimLeft(_)
TrimLeft(s) == IF s # <<>> /\ Head(s) \in Whitespace THEN TrimLeft(Tail(s)) ELSE s

RECURSIVE TrimRight(_)
TrimRight(s) ==
    IF s # <<>> /\ s[Len(s)] \in Whitespace THEN TrimRight(SubSeq(s, 1, Len(s)-1)) ELSE s

Trim(s) == TrimRight(TrimLeft(s))

\* value.split(':')[0]
ScriptPart(value) == Split(value, Colon)[1]
\* value.split(':')[1], undefined when the line holds no ':'
HashPart(value) ==
    LET parts == Split(value, Colon)
    IN IF Len(parts) >= 2 THEN Str(parts[2]) ELSE Undefined

\* script.name + '@' + server
ScriptAtServer(name, srv) == name \o <<At>> \o srv

\* indexOf on the settings list
IndexOfGE0(list, name) == \E k \in 1..Len(list) : list[k] = name

\* -------------------------------------------------------------- the inputs
AllNames == <<<<"a">>, <<"b">>, <<"c">>, <<"d">>, <<"e">>>>
Servers == {<<"s">>}
HashX == <<"x">>
HashY == <<"y">>

\* a script record as the caller hands it over
ScriptT(name, conflict, hash) ==
    [name |-> name, conflict |-> conflict, lastSyncHash |-> hash,
     conflictMode |-> TRUE, forceUpload |-> FALSE]

Batches ==
    UNION { { [i \in 1..n |-> ScriptT(AllNames[i], c[i], h[i])] :
                c \in [1..n -> BOOLEAN], h \in [1..n -> {Undefined, Str(HashX)}] } :
            n \in 0..MaxScripts }

\* the setting 'forceUpload' of settings.json: a list of names, or not a list
NotAnArray == [isArray |-> FALSE, list |-> <<>>]
ArrayOf(l) == [isArray |-> TRUE, list |-> l]
ForceUploadSettings ==
    {NotAnArray, ArrayOf(<<>>), ArrayOf(<<AllNames[3]>>), ArrayOf(<<AllNames[1], AllNames[3]>>)}

\* the cache file <workspace>/.vscode-janus-debug
Missing == [state |-> "ENOENT", content |-> <<>>]
Unreadable == [state |-> "EACCES", content |-> <<>>]
File(content) == [state |-> "ok", content |-> content]
Line(name, srv, hash) == ScriptAtServer(name, srv) \o <<Colon>> \o hash
InitialFiles ==
    {Missing, Unreadable, File(<<>>),
     File(Join(<<Line(AllNames[1], <<"s">>, HashY), Line(AllNames[3], <<"s">>, HashY)>>, NL)),
     File(Line(AllNames[1], <<"t">>, HashY))}

\* ------------------------------------------------------------------- state
VARIABLES
    pc,            \* position of the caller's pipeline
    scripts,       \* the script objects of the batch
    conf,          \* setting 'forceUpload' of settings.json
    rootPath,      \* vscode.workspace.rootPath is set
    server,        \* the server argument of read/updateHashValues
    cacheFile,     \* the cache file on disk
    pendingWrite,  \* nodeDoc.writeFile started by updateHashValues, not yet landed
    warnings,      \* number of showWarningMessage calls
    all, none, singlescript, noConflict, forceUpload,  \* locals of ensureForceUpload
    idx,           \* position of reduce() in the input array
    scripts0,      \* history: the script records when ensureForceUpload was called
    decisions,     \* history: the value askForUpload resolved with, per script
    prompted,      \* history: the scripts a quick pick was shown for, in order
    calls,         \* number of calls made on the cache file by the callers
    hist,          \* history: the calls on the cache file and the writes that landed
    inflight,      \* the nodeDoc.writeFile calls that were started and have not landed
    inv,           \* the locals of the ensureForceUpload invocations
    started,       \* number of ensureForceUpload invocations started
    settings,      \* the upload settings of settings.json
    saves,         \* the ensureUploadOnSave invocations
    confUpdates,   \* the conf.update calls that were started and have not landed
    loginData,     \* the nodeDoc.LoginData object of the extension
    launchJson,    \* the file .vscode/launch.json
    flow,          \* the ensureLoginInformation call: its position and its locals
    logins,        \* number of ensureLoginInformation calls made
    autoConnectServerConsole,  \* the setting serverConsole.autoConnect, read on startup
    reconnects,    \* the reconnectServerConsole invocations: their positions
    consoleLog     \* history: the calls on the server console and their completions

\* the state of the login
loginVars == <<loginData, launchJson, flow, logins>>

\* the state of the server console
consoleVars == <<autoConnectServerConsole, reconnects, consoleLog>>

vars == <<pc, scripts, conf, rootPath, server, cacheFile, pendingWrite, warnings,
          all, none, singlescript, noConflict, forceUpload, idx,
          scripts0, decisions, prompted, calls, hist, inflight, inv, started,
          settings, saves, confUpdates, loginData, launchJson, flow, logins,
          autoConnectServerConsole, reconnects, consoleLog>>

\* the state of the overlapping callers and of the upload on save
others == <<calls, hist, inflight, inv, started, settings, saves, confUpdates, loginVars, consoleVars>>

NoWrite == [pending |-> FALSE, content |-> <<>>]

\* settings.json without a script in uploadOnSave or uploadManually
NoUploadSettings ==
    [uploadOnSave |-> ArrayOf(<<>>), uploadManually |-> ArrayOf(<<>>),
     uploadOnSaveGlobal |-> TRUE]

\* the login data of `new nodeDoc.LoginData()`
EmptyLoginData ==
    [server |-> "", port |-> 0, principal |-> "", username |-> "", password |-> "",
     askForPassword |-> FALSE]

NoLaunchJson == [exists |-> FALSE, configurations |-> <<>>]

\* no ensureLoginInformation call is under way
NoFlow ==
    [at |-> "idle", asked |-> "none", hostname |-> "", port |-> "", principal |-> "",
     before |-> EmptyLoginData, cancelled |-> FALSE, statSaw |-> "",
     data |-> NoLaunchJson, saved |-> "none", warned |-> FALSE, got |-> "none",
     settledWith |-> EmptyLoginData]

\* the server console is not used
NoConsole ==
    /\ autoConnectServerConsole = TRUE
    /\ reconnects = <<>>
    /\ consoleLog = <<>>

\* nobody logs in
NoLogin ==
    /\ loginData = EmptyLoginData
    /\ launchJson = NoLaunchJson
    /\ flow = NoFlow
    /\ logins = 0

Init ==
    /\ pc = "created"
    /\ scripts \in Batches
    /\ conf \in ForceUploadSettings
    /\ rootPath \in BOOLEAN
    /\ server \in Servers
    /\ cacheFile \in InitialFiles
    /\ (~rootPath => cacheFile = Missing)
    /\ pendingWrite = NoWrite
    /\ warnings = 0
    /\ all = FALSE /\ none = FALSE /\ singlescript = FALSE
    /\ noConflict = <<>> /\ forceUpload = <<>>
    /\ idx = 0
    /\ scripts0 = <<>>
    /\ decisions = <<>>
    /\ prompted = <<>>
    /\ calls = 0 /\ hist = <<>> /\ inflight = <<>>
    /\ inv = <<>> /\ started = 0
    /\ settings = NoUploadSettings /\ saves = <<>> /\ confUpdates = <<>>
    /\ NoLogin
    /\ NoConsole

\* ---------------------------------------------------------- readHashValues
\* fs.readFileSync(_documents, 'utf8').trim().split('\n')
ReadLines(file) == Split(Trim(file.content), NL)

\* the inner forEach over hashValues: the last matching line wins
RECURSIVE LookupHash(_, _, _)
LookupHash(hashValues, scriptAtServer, current) ==
    IF hashValues = <<>> THEN current
    ELSE LookupHash(Tail(hashValues), scriptAtServer,
                    IF ScriptPart(Head(hashValues)) = scriptAtServer
                    THEN HashPart(Head(hashValues)) ELSE current)

\* the body of pscripts.forEach in readHashValues
AnnotateScript(script, hashValues, list, srv) ==
    IF IndexOfGE0(list, script.name)
    THEN [script EXCEPT !.conflictMode = FALSE]
    ELSE [script EXCEPT !.lastSyncHash =
            LookupHash(hashValues, ScriptAtServer(script.name, srv), script.lastSyncHash)]

\* readHashValues as a function of what it reads; the result holds what it leaves behind
ReadHashValuesResult(pscripts, srv, root, file, setting) ==
    LET same == [scripts |-> pscripts, file |-> file, warned |-> FALSE] IN
    IF Len(pscripts) = 0 THEN same
    ELSE IF ~root THEN same
    ELSE IF file.state # "ok" /\ file.state # "ENOENT" THEN same
    ELSE LET hashValues == IF file.state = "ok" THEN ReadLines(file) ELSE <<>>
             file1 == IF file.state = "ok" THEN file ELSE File(<<>>)
         IN IF ~setting.isArray
            THEN [scripts |-> pscripts, file |-> file1, warned |-> TRUE]
            ELSE [scripts |-> [i \in 1..Len(pscripts) |->
                                 AnnotateScript(pscripts[i], hashValues, setting.list, srv)],
                  file |-> file1, warned |-> FALSE]

ReadHashValues ==
    /\ pc = "created"
    /\ LET r == ReadHashValuesResult(scripts, server, rootPath, cacheFile, conf)
       IN /\ scripts' = r.scripts
          /\ cacheFile' = r.file
          /\ warnings' = IF r.warned THEN warnings + 1 ELSE warnings
    /\ pc' = "annotated"
    /\ UNCHANGED others
    /\ UNCHANGED <<conf, rootPath, server, pendingWrite, all, none, singlescript,
                   noConflict, forceUpload, idx, scripts0, decisions, prompted>>

\* ------------------------------------------------------------ askForUpload
\* The outcome of askForUpload up to the point where it either resolves or
\* calls showQuickPick: prompt = TRUE means the quick pick is shown with the
\* given question and answers and its selection is the resolved value.
AskForUpload_IgnoresAll(script, pall, pnone, single) ==
    IF script.conflict \/ ~Truthy(script.lastSyncHash)
    THEN IF pnone THEN [prompt |-> FALSE, value |-> FORCE_UPLOAD_NONE,
                        question |-> "", answers |-> <<>>]
         ELSE [prompt |-> TRUE, value |-> NoSelection, question |-> "",
               answers |-> IF ~single
                           THEN <<FORCE_UPLOAD_YES, FORCE_UPLOAD_NO,
                                  FORCE_UPLOAD_ALL, FORCE_UPLOAD_NONE>>
                           ELSE <<FORCE_UPLOAD_YES, FORCE_UPLOAD_NO>>]
    ELSE [prompt |-> FALSE, value |-> NO_CONFLICT, question |-> "", answers |-> <<>>]

AskForUpload_IgnoresNone(script, pall, pnone, single) ==
    IF script.conflict \/ ~Truthy(script.lastSyncHash)
    THEN IF pall THEN [prompt |-> FALSE, value |-> FORCE_UPLOAD_ALL,
                       question |-> "", answers |-> <<>>]
         ELSE [prompt |-> TRUE, value |-> NoSelection, question |-> "",
               answers |-> IF ~single
                           THEN <<FORCE_UPLOAD_YES, FORCE_UPLOAD_NO,
                                  FORCE_UPLOAD_ALL, FORCE_UPLOAD_NONE>>
                           ELSE <<FORCE_UPLOAD_YES, FORCE_UPLOAD_NO>>]
    ELSE [prompt |-> FALSE, value |-> NO_CONFLICT, question |-> "", answers |-> <<>>]

AskForUpload_ConflictOnly(script, pall, pnone, single) ==
    IF script.conflict
    THEN IF pall THEN [prompt |-> FALSE, value |-> FORCE_UPLOAD_ALL,
                       question |-> "", answers |-> <<>>]
         ELSE IF pnone THEN [prompt |-> FALSE, value |-> FORCE_UPLOAD_NONE,
                             question |-> "", answers |-> <<>>]
         ELSE [prompt |-> TRUE, value |-> NoSelection, question |-> "",
               answers |-> IF ~single
                           THEN <<FORCE_UPLOAD_YES, FORCE_UPLOAD_NO,
                                  FORCE_UPLOAD_ALL, FORCE_UPLOAD_NONE>>
                           ELSE <<FORCE_UPLOAD_YES, FORCE_UPLOAD_NO>>]
    ELSE [prompt |-> FALSE, value |-> NO_CONFLICT, question |-> "", answers |-> <<>>]

AskForUpload_NoneFirst(script, pall, pnone, single) ==
    IF script.conflict \/ ~Truthy(script.lastSyncHash)
    THEN IF pnone THEN [prompt |-> FALSE, value |-> FORCE_UPLOAD_NONE,
                        question |-> "", answers |-> <<>>]
         ELSE IF pall THEN [prompt |-> FALSE, value |-> FORCE_UPLOAD_ALL,
                            question |-> "", answers |-> <<>>]
         ELSE [prompt |-> TRUE, value |-> NoSelection, question |-> "",
               answers |-> IF ~single
                           THEN <<FORCE_UPLOAD_YES, FORCE_UPLOAD_NO,
                                  FORCE_UPLOAD_ALL, FORCE_UPLOAD_NONE>>
                           ELSE <<FORCE_UPLOAD_YES, FORCE_UPLOAD_NO>>]
    ELSE [prompt |-> FALSE, value |-> NO_CONFLICT, question |-> "", answers |-> <<>>]

AskForUpload_PromptsWhenLatched(script, pall, pnone, single) ==
    IF script.conflict \/ ~Truthy(script.lastSyncHash)
    THEN [prompt |-> TRUE, value |-> NoSelection,
          question |-> IF Truthy(script.lastSyncHash)
                       THEN "has been changed on server, upload anyway?"
                       ELSE "might have been changed on server, upload anyway?",
          answers |-> IF ~single
                      THEN <<FORCE_UPLOAD_YES, FORCE_UPLOAD_NO,
                             FORCE_UPLOAD_ALL, FORCE_UPLOAD_NONE>>
                      ELSE <<FORCE_UPLOAD_YES, FORCE_UPLOAD_NO>>]
    ELSE [prompt |-> FALSE, value |-> NO_CONFLICT, question |-> "", answers |-> <<>>]

AskForUpload_AlwaysFour(script, pall, pnone, single) ==
    IF script.conflict \/ ~Truthy(script.lastSyncHash)
    THEN IF pall THEN [prompt |-> FALSE, value |-> FORCE_UPLOAD_ALL,
                       question |-> "", answers |-> <<>>]
         ELSE IF pnone THEN [prompt |-> FALSE, value |-> FORCE_UPLOAD_NONE,
                             question |-> "", answers |-> <<>>]
         ELSE [prompt |-> TRUE, value |-> NoSelection,
               question |-> IF Truthy(script.lastSyncHash)
                            THEN "has been changed on server, upload anyway?"
                            ELSE "might have been changed on server, upload anyway?",
               answers |-> <<FORCE_UPLOAD_YES, FORCE_UPLOAD_NO,
                             FORCE_UPLOAD_ALL, FORCE_UPLOAD_NONE>>]
    ELSE [prompt |-> FALSE, value |-> NO_CONFLICT, question |-> "", answers |-> <<>>]

AskForUpload(script, pall, pnone, single) ==
    IF script.conflict \/ ~Truthy(script.lastSyncHash)
    THEN IF pall THEN [prompt |-> FALSE, value |-> FORCE_UPLOAD_ALL,
                       question |-> "", answers |-> <<>>]
         ELSE IF pnone THEN [prompt |-> FALSE, value |-> FORCE_UPLOAD_NONE,
                             question |-> "", answers |-> <<>>]
         ELSE [prompt |-> TRUE, value |-> NoSelection,
               question |-> IF Truthy(script.lastSyncHash)
                            THEN "has been changed on server, upload anyway?"
                            ELSE "might have been changed on server, upload anyway?",
               answers |-> IF ~single
                           THEN <<FORCE_UPLOAD_YES, FORCE_UPLOAD_NO,
                                  FORCE_UPLOAD_ALL, FORCE_UPLOAD_NONE>>
                           ELSE <<FORCE_UPLOAD_YES, FORCE_UPLOAD_NO>>]
    ELSE [prompt |-> FALSE, value |-> NO_CONFLICT, question |-> "", answers |-> <<>>]

\* what the prompt channel can return for a list of choices
Selections(answers) == {answers[k] : k \in 1..Len(answers)} \cup {NoSelection}

\* ------------------------------------------------------- ensureForceUpload
\* The state of one ensureForceUpload invocation: b.scripts are the script
\* objects, b.noConflict and b.forceUpload the two arrays, b.all and b.none
\* the policy flags, b.prompted the quick picks shown so far.
BatchState_SharedFlags(pscripts) ==
    [scripts |-> pscripts,
     all |-> \E k \in DOMAIN inv : inv[k].b.all,
     none |-> \E k \in DOMAIN inv : inv[k].b.none,
     noConflict |-> <<>>, forceUpload |-> <<>>, prompted |-> <<>>]

BatchState(pscripts) ==
    [scripts |-> pscripts, all |-> FALSE, none |-> FALSE,
     noConflict |-> <<>>, forceUpload |-> <<>>, prompted |-> <<>>]

Forced(b, i) ==
    [b EXCEPT !.scripts[i].forceUpload = TRUE, !.scripts[i].conflict = FALSE,
              !.forceUpload = Append(@, i)]

Route_NoneAsNo(b, i, value) ==
    IF NO_CONFLICT = value THEN [b EXCEPT !.noConflict = Append(@, i)]
    ELSE IF FORCE_UPLOAD_ALL = value THEN [Forced(b, i) EXCEPT !.all = TRUE]
    ELSE IF FORCE_UPLOAD_YES = value THEN Forced(b, i)
    ELSE IF FORCE_UPLOAD_NO = value \/ FORCE_UPLOAD_NONE = value THEN b
    ELSE [b EXCEPT !.none = TRUE]

Route_DismissAsNo(b, i, value) ==
    IF NO_CONFLICT = value THEN [b EXCEPT !.noConflict = Append(@, i)]
    ELSE IF FORCE_UPLOAD_ALL = value THEN [Forced(b, i) EXCEPT !.all = TRUE]
    ELSE IF FORCE_UPLOAD_YES = value THEN Forced(b, i)
    ELSE IF FORCE_UPLOAD_NONE = value THEN [b EXCEPT !.none = TRUE]
    ELSE b

Route_PushBoth(b, i, value) ==
    IF NO_CONFLICT = value THEN [b EXCEPT !.noConflict = Append(@, i)]
    ELSE IF FORCE_UPLOAD_ALL = value THEN [Forced(b, i) EXCEPT !.all = TRUE]
    ELSE IF FORCE_UPLOAD_YES = value
    THEN [Forced(b, i) EXCEPT !.noConflict = Append(@, i)]
    ELSE IF FORCE_UPLOAD_NO = value THEN b
    ELSE [b EXCEPT !.none = TRUE]

Route_DismissAsYes(b, i, value) ==
    IF NO_CONFLICT = value THEN [b EXCEPT !.noConflict = Append(@, i)]
    ELSE IF FORCE_UPLOAD_ALL = value THEN [Forced(b, i) EXCEPT !.all = TRUE]
    ELSE IF FORCE_UPLOAD_NO = value THEN b
    ELSE IF FORCE_UPLOAD_NONE = value THEN [b EXCEPT !.none = TRUE]
    ELSE Forced(b, i)

Route_YesKeepsConflict(b, i, value) ==
    IF NO_CONFLICT = value THEN [b EXCEPT !.noConflict = Append(@, i)]
    ELSE IF FORCE_UPLOAD_ALL = value THEN [Forced(b, i) EXCEPT !.all = TRUE]
    ELSE IF FORCE_UPLOAD_YES = value
    THEN [b EXCEPT !.scripts[i].forceUpload = TRUE, !.forceUpload = Append(@, i)]
    ELSE IF FORCE_UPLOAD_NO = value THEN b
    ELSE [b EXCEPT !.none = TRUE]

Route_AllTakesEarlier(b, i, value) ==
    IF NO_CONFLICT = value THEN [b EXCEPT !.noConflict = Append(@, i)]
    ELSE IF FORCE_UPLOAD_ALL = value
    THEN LET f == Forced(b, i)
         IN [f EXCEPT !.all = TRUE,
                      !.scripts = [k \in 1..Len(f.scripts) |->
                                      IF k < i
                                      THEN [f.scripts[k] EXCEPT !.forceUpload = TRUE]
                                      ELSE f.scripts[k]]]
    ELSE IF FORCE_UPLOAD_YES = value THEN Forced(b, i)
    ELSE IF FORCE_UPLOAD_NO = value THEN b
    ELSE [b EXCEPT !.none = TRUE]

Route_AllKeepsConflict(b, i, value) ==
    IF NO_CONFLICT = value THEN [b EXCEPT !.noConflict = Append(@, i)]
    ELSE IF FORCE_UPLOAD_ALL = value
    THEN [b EXCEPT !.scripts[i].forceUpload = TRUE, !.forceUpload = Append(@, i),
                   !.all = TRUE]
    ELSE IF FORCE_UPLOAD_YES = value THEN Forced(b, i)
    ELSE IF FORCE_UPLOAD_NO = value THEN b
    ELSE [b EXCEPT !.none = TRUE]

\* the callback of askForUpload(...).then in the reducer, for script i
Route(b, i, value) ==
    IF NO_CONFLICT = value
    THEN [b EXCEPT !.noConflict = Append(@, i)]
    ELSE IF FORCE_UPLOAD_ALL = value
    THEN [b EXCEPT !.scripts[i].forceUpload = TRUE, !.scripts[i].conflict = FALSE,
                   !.forceUpload = Append(@, i), !.all = TRUE]
    ELSE IF FORCE_UPLOAD_YES = value
    THEN [b EXCEPT !.scripts[i].forceUpload = TRUE, !.scripts[i].conflict = FALSE,
                   !.forceUpload = Append(@, i)]
    ELSE IF FORCE_UPLOAD_NO = value
    THEN b
    ELSE [b EXCEPT !.none = TRUE]

\* The reducer from script i to the end of the batch, when the prompt channel
\* answers the quick pick of script k with sel[k].
RECURSIVE Reduce(_, _, _)
Reduce(b, i, sel) ==
    IF i > Len(b.scripts) THEN b
    ELSE LET a == AskForUpload(b.scripts[i], b.all, b.none, 1 = Len(b.scripts))
         IN IF a.prompt
            THEN Reduce(Route([b EXCEPT !.prompted = Append(@, i)], i, sel[i]), i + 1, sel)
            ELSE Reduce(Route(b, i, a.value), i + 1, sel)

Current ==
    [scripts |-> scripts, all |-> all, none |-> none,
     noConflict |-> noConflict, forceUpload |-> forceUpload, prompted |-> prompted]

Apply(b) ==
    /\ scripts' = b.scripts
    /\ all' = b.all
    /\ none' = b.none
    /\ noConflict' = b.noConflict
    /\ forceUpload' = b.forceUpload
    /\ prompted' = b.prompted

\* the call: the locals are initialised and reduce() starts at the first script
EnsureForceUpload ==
    /\ pc = "annotated"
    /\ Apply(BatchState(scripts))
    /\ singlescript' = (1 = Len(scripts))
    /\ idx' = 1
    /\ scripts0' = scripts
    /\ decisions' = <<>>
    /\ pc' = "reduce"
    /\ UNCHANGED others
    /\ UNCHANGED <<conf, rootPath, server, cacheFile, pendingWrite, warnings>>

\* askForUpload resolves without a quick pick and its value is routed
ResolveWithoutPrompt ==
    /\ pc = "reduce"
    /\ idx <= Len(scripts)
    /\ LET a == AskForUpload(scripts[idx], all, none, singlescript)
       IN /\ ~a.prompt
          /\ Apply(Route(Current, idx, a.value))
          /\ decisions' = Append(decisions, a.value)
    /\ idx' = idx + 1
    /\ UNCHANGED others
    /\ UNCHANGED <<pc, conf, rootPath, server, cacheFile, pendingWrite, warnings,
                   singlescript, scripts0>>

ShowQuickPick_DoesNotWait ==
    /\ pc = "reduce"
    /\ idx <= Len(scripts)
    /\ AskForUpload(scripts[idx], all, none, singlescript).prompt
    /\ prompted' = Append(prompted, idx)
    /\ idx' = idx + 1
    /\ UNCHANGED others
    /\ UNCHANGED <<pc, scripts, conf, rootPath, server, cacheFile, pendingWrite, warnings,
                   all, none, singlescript, noConflict, forceUpload,
                   scripts0, decisions>>

\* askForUpload calls showQuickPick and waits for the selection
ShowQuickPick ==
    /\ pc = "reduce"
    /\ idx <= Len(scripts)
    /\ AskForUpload(scripts[idx], all, none, singlescript).prompt
    /\ prompted' = Append(prompted, idx)
    /\ pc' = "quickPick"
    /\ UNCHANGED others
    /\ UNCHANGED <<scripts, conf, rootPath, server, cacheFile, pendingWrite, warnings,
                   all, none, singlescript, noConflict, forceUpload, idx,
                   scripts0, decisions>>

QuickPickReturns_DismissHangs ==
    /\ pc = "quickPick"
    /\ \E value \in Selections(AskForUpload(scripts[idx], all, none, singlescript).answers) :
          IF value = NoSelection
          THEN /\ pc' = "dismissed"
               /\ UNCHANGED <<scripts, all, none, noConflict, forceUpload, prompted,
                              decisions, idx>>
          ELSE /\ Apply(Route(Current, idx, value))
               /\ decisions' = Append(decisions, value)
               /\ idx' = idx + 1
               /\ pc' = "reduce"
    /\ UNCHANGED others
    /\ UNCHANGED <<conf, rootPath, server, cacheFile, pendingWrite, warnings,
                   singlescript, scripts0>>

\* the user selects an answer or dismisses the quick pick; the value is routed
QuickPickReturns ==
    /\ pc = "quickPick"
    /\ \E value \in Selections(AskForUpload(scripts[idx], all, none, singlescript).answers) :
          /\ Apply(Route(Current, idx, value))
          /\ decisions' = Append(decisions, value)
    /\ idx' = idx + 1
    /\ pc' = "reduce"
    /\ UNCHANGED others
    /\ UNCHANGED <<conf, rootPath, server, cacheFile, pendingWrite, warnings,
                   singlescript, scripts0>>

\* reduce() is through: resolve([noConflict, forceUpload])
ResolveArrays ==
    /\ pc = "reduce"
    /\ idx > Len(scripts)
    /\ pc' = "resolved"
    /\ UNCHANGED others
    /\ UNCHANGED <<scripts, conf, rootPath, server, cacheFile, pendingWrite, warnings,
                   all, none, singlescript, noConflict, forceUpload, idx,
                   scripts0, decisions, prompted>>

\* -------------------------------------------------------- updateHashValues
\* the inner forEach over hashValues: every matching line is replaced
ReplaceEntry(hashValues, scriptAtServer, entry) ==
    [k \in 1..Len(hashValues) |->
        IF ScriptPart(hashValues[k]) = scriptAtServer THEN entry ELSE hashValues[k]]

UpdateEntry_IgnoresConflict(hashValues, script, list, srv) ==
    IF ~IndexOfGE0(list, script.name)
    THEN LET scriptAtServer == ScriptAtServer(script.name, srv)
             entry == scriptAtServer \o <<Colon>> \o ToStr(script.lastSyncHash)
             updated == \E k \in 1..Len(hashValues) :
                            ScriptPart(hashValues[k]) = scriptAtServer
         IN IF updated THEN ReplaceEntry(hashValues, scriptAtServer, entry)
            ELSE Append(hashValues, entry)
    ELSE hashValues

UpdateEntry_NoServer(hashValues, script, list, srv) ==
    IF ~IndexOfGE0(list, script.name) /\ script.conflict # TRUE
    THEN LET scriptAtServer == ScriptAtServer(script.name, srv)
             entry == script.name \o <<Colon>> \o ToStr(script.lastSyncHash)
             updated == \E k \in 1..Len(hashValues) :
                            ScriptPart(hashValues[k]) = scriptAtServer
         IN IF updated THEN ReplaceEntry(hashValues, scriptAtServer, entry)
            ELSE Append(hashValues, entry)
    ELSE hashValues

UpdateEntry_IgnoresExemption(hashValues, script, list, srv) ==
    IF script.conflict # TRUE
    THEN LET scriptAtServer == ScriptAtServer(script.name, srv)
             entry == scriptAtServer \o <<Colon>> \o ToStr(script.lastSyncHash)
             updated == \E k \in 1..Len(hashValues) :
                            ScriptPart(hashValues[k]) = scriptAtServer
         IN IF updated THEN ReplaceEntry(hashValues, scriptAtServer, entry)
            ELSE Append(hashValues, entry)
    ELSE hashValues

\* the body of pscripts.forEach in updateHashValues
UpdateEntry(hashValues, script, list, srv) ==
    IF ~IndexOfGE0(list, script.name) /\ script.conflict # TRUE
    THEN LET scriptAtServer == ScriptAtServer(script.name, srv)
             entry == scriptAtServer \o <<Colon>> \o ToStr(script.lastSyncHash)
             updated == \E k \in 1..Len(hashValues) :
                            ScriptPart(hashValues[k]) = scriptAtServer
         IN IF updated THEN ReplaceEntry(hashValues, scriptAtServer, entry)
            ELSE Append(hashValues, entry)
    ELSE hashValues

RECURSIVE UpdateEntries(_, _, _, _)
UpdateEntries(hashValues, pscripts, list, srv) ==
    IF pscripts = <<>> THEN hashValues
    ELSE UpdateEntries(UpdateEntry(hashValues, Head(pscripts), list, srv),
                       Tail(pscripts), list, srv)

UpdateHashValuesResult_WarnsAndGoesOn(pscripts, srv, root, file, setting) ==
    LET nothing == [write |-> NoWrite, warned |-> FALSE] IN
    IF Len(pscripts) = 0 THEN nothing
    ELSE IF ~root THEN nothing
    ELSE IF file.state # "ok" THEN nothing
    ELSE [write |-> [pending |-> TRUE,
                     content |-> Trim(Join(UpdateEntries(ReadLines(file), pscripts,
                                                         setting.list, srv), NL))],
          warned |-> ~setting.isArray]

\* updateHashValues as a function of what it reads: the write it starts, if any
UpdateHashValuesResult(pscripts, srv, root, file, setting) ==
    LET nothing == [write |-> NoWrite, warned |-> FALSE] IN
    IF Len(pscripts) = 0 THEN nothing
    ELSE IF ~root THEN nothing
    ELSE IF file.state # "ok" THEN nothing
    ELSE IF ~setting.isArray THEN [write |-> NoWrite, warned |-> TRUE]
    ELSE [write |-> [pending |-> TRUE,
                     content |-> Trim(Join(UpdateEntries(ReadLines(file), pscripts,
                                                         setting.list, srv), NL))],
          warned |-> FALSE]

UpdateHashValues ==
    /\ pc = "resolved"
    /\ LET r == UpdateHashValuesResult(scripts, server, rootPath, cacheFile, conf)
       IN /\ pendingWrite' = r.write
          /\ warnings' = IF r.warned THEN warnings + 1 ELSE warnings
    /\ pc' = "updated"
    /\ UNCHANGED others
    /\ UNCHANGED <<scripts, conf, rootPath, server, cacheFile,
                   all, none, singlescript, noConflict, forceUpload, idx,
                   scripts0, decisions, prompted>>

\* nodeDoc.writeFile lands: the cache file is rewritten
WriteFileDone ==
    /\ pendingWrite.pending
    /\ cacheFile' = File(pendingWrite.content)
    /\ pendingWrite' = NoWrite
    /\ UNCHANGED others
    /\ UNCHANGED <<pc, scripts, conf, rootPath, server, warnings,
                   all, none, singlescript, noConflict, forceUpload, idx,
                   scripts0, decisions, prompted>>

\* nodeDoc.writeFile fails: the failure is dropped
WriteFileFails ==
    /\ pendingWrite.pending
    /\ pendingWrite' = NoWrite
    /\ UNCHANGED others
    /\ UNCHANGED <<pc, scripts, conf, rootPath, server, cacheFile, warnings,
                   all, none, singlescript, noConflict, forceUpload, idx,
                   scripts0, decisions, prompted>>

Next ==
    \/ ReadHashValues
    \/ EnsureForceUpload
    \/ ResolveWithoutPrompt
    \/ ShowQuickPick
    \/ QuickPickReturns
    \/ ResolveArrays
    \/ UpdateHashValues
    \/ WriteFileDone
    \/ WriteFileFails

Spec == Init /\ [][Next]_vars

TypeOK ==
    /\ pc \in {"created", "annotated", "reduce", "quickPick", "resolved", "updated"}
    /\ idx \in 0..(Len(scripts) + 1)
    /\ all \in BOOLEAN /\ none \in BOOLEAN

\* ------------------------------------------------------- readConflictModes
\* (vscode.workspace is the API namespace and always defined)
ReadConflictModesResult(pscripts, setting) ==
    IF Len(pscripts) = 0 THEN [scripts |-> pscripts, warned |-> FALSE]
    ELSE IF ~setting.isArray THEN [scripts |-> pscripts, warned |-> TRUE]
    ELSE [scripts |-> [i \in 1..Len(pscripts) |->
                         IF IndexOfGE0(setting.list, pscripts[i].name)
                         THEN [pscripts[i] EXCEPT !.conflictMode = FALSE]
                         ELSE pscripts[i]],
          warned |-> FALSE]

\* ---------------------------------------------- callers of the cache store
\* Callers invoke readConflictModes, readHashValues and updateHashValues in
\* any order on the one cache file; the writes that updateHashValues starts
\* land later, in any order, or fail.
NameA == <<"a">>
NameB == <<"b">>
NameAB == <<"a", ":", "b">>
CacheNames == {NameA, NameB, NameAB}
H1 == <<"h", "1">>
H2 == <<"h", "2">>
H3 == <<"h", "3">>

UpdateBatches ==
    { <<ScriptT(NameA, FALSE, Str(H1))>>,
      <<ScriptT(NameA, FALSE, Str(H2)), ScriptT(NameB, FALSE, Str(H3))>>,
      <<ScriptT(NameAB, FALSE, Str(H1))>> }

ReadBatches ==
    { <<ScriptT(NameA, FALSE, Undefined), ScriptT(NameB, FALSE, Undefined)>>,
      <<ScriptT(NameAB, FALSE, Undefined)>> }

ConflictModeBatches ==
    { <<>>,
      <<ScriptT(NameA, FALSE, Undefined), ScriptT(NameB, FALSE, Undefined)>> }

\* the cache file before the calls: missing, unreadable, empty, or with the
\* records of a on this server and on another server
CacheFiles ==
    {Missing, Unreadable, File(<<>>),
     File(Join(<<Line(NameA, <<"s">>, HashY), Line(NameA, <<"t">>, HashY)>>, NL))}

CacheSettings == {NotAnArray, ArrayOf(<<>>), ArrayOf(<<NameB>>)}

\* an entry of the history
Event(op, batch, result, warned, before, wrote, content) ==
    [op |-> op, batch |-> batch, result |-> result, warned |-> warned,
     before |-> before, wrote |-> wrote, content |-> content]

CacheInit ==
    /\ pc = "cache"
    /\ scripts = <<>>
    /\ conf \in CacheSettings
    /\ rootPath \in BOOLEAN
    /\ server \in Servers
    /\ cacheFile \in CacheFiles
    /\ (~rootPath => cacheFile = Missing)
    /\ pendingWrite = NoWrite
    /\ warnings = 0
    /\ all = FALSE /\ none = FALSE /\ singlescript = FALSE
    /\ noConflict = <<>> /\ forceUpload = <<>>
    /\ idx = 0
    /\ scripts0 = <<>>
    /\ decisions = <<>>
    /\ prompted = <<>>
    /\ calls = 0
    /\ hist = <<Event("init", <<>>, <<>>, FALSE, cacheFile.state, FALSE, cacheFile.content)>>
    /\ inflight = <<>>
    /\ inv = <<>> /\ started = 0
    /\ settings = NoUploadSettings /\ saves = <<>> /\ confUpdates = <<>>
    /\ NoLogin
    /\ NoConsole

batchVars == <<all, none, singlescript, noConflict, forceUpload, idx,
               scripts0, decisions, prompted, pendingWrite, inv, started,
               settings, saves, confUpdates, loginVars, consoleVars>>

CallReadConflictModes ==
    /\ pc = "cache"
    /\ calls < MaxCalls
    /\ \E b \in ConflictModeBatches :
          LET r == ReadConflictModesResult(b, conf)
          IN /\ scripts' = r.scripts
             /\ warnings' = IF r.warned THEN warnings + 1 ELSE warnings
             /\ hist' = Append(hist, Event("readConflictModes", b, r.scripts, r.warned,
                                           cacheFile.state, FALSE, <<>>))
    /\ calls' = calls + 1
    /\ UNCHANGED <<pc, conf, rootPath, server, cacheFile, inflight>>
    /\ UNCHANGED batchVars

CallReadHashValues ==
    /\ pc = "cache"
    /\ calls < MaxCalls
    /\ \E b \in ReadBatches :
          LET r == ReadHashValuesResult(b, server, rootPath, cacheFile, conf)
          IN /\ scripts' = r.scripts
             /\ cacheFile' = r.file
             /\ warnings' = IF r.warned THEN warnings + 1 ELSE warnings
             /\ hist' = Append(hist, Event("readHashValues", b, r.scripts, r.warned,
                                           cacheFile.state, FALSE, <<>>))
    /\ calls' = calls + 1
    /\ UNCHANGED <<pc, conf, rootPath, server, inflight>>
    /\ UNCHANGED batchVars

CallUpdateHashValues ==
    /\ pc = "cache"
    /\ calls < MaxCalls
    /\ \E b \in UpdateBatches :
          LET r == UpdateHashValuesResult(b, server, rootPath, cacheFile, conf)
          IN /\ scripts' = b
             /\ inflight' = IF r.write.pending THEN Append(inflight, r.write.content)
                            ELSE inflight
             /\ warnings' = IF r.warned THEN warnings + 1 ELSE warnings
             /\ hist' = Append(hist, Event("updateHashValues", b, b, r.warned,
                                           cacheFile.state, r.write.pending,
                                           r.write.content))
    /\ calls' = calls + 1
    /\ UNCHANGED <<pc, conf, rootPath, server, cacheFile>>
    /\ UNCHANGED batchVars

RemoveAt(seq, k) == SubSeq(seq, 1, k - 1) \o SubSeq(seq, k + 1, Len(seq))

\* one of the started writes lands and replaces the file
WriteLands ==
    /\ pc = "cache"
    /\ \E k \in 1..Len(inflight) :
          /\ cacheFile' = File(inflight[k])
          /\ inflight' = RemoveAt(inflight, k)
          /\ hist' = Append(hist, Event("writeFile", <<>>, <<>>, FALSE,
                                        cacheFile.state, TRUE, inflight[k]))
    /\ UNCHANGED <<pc, scripts, conf, rootPath, server, warnings, calls>>
    /\ UNCHANGED batchVars

\* one of the started writes fails; nobody looks at the failure
WriteDropped ==
    /\ pc = "cache"
    /\ \E k \in 1..Len(inflight) :
          /\ inflight' = RemoveAt(inflight, k)
          /\ hist' = Append(hist, Event("writeFailed", <<>>, <<>>, FALSE,
                                        cacheFile.state, FALSE, inflight[k]))
    /\ UNCHANGED <<pc, scripts, conf, rootPath, server, cacheFile, warnings, calls>>
    /\ UNCHANGED batchVars

CacheNext ==
    \/ CallReadConflictModes
    \/ CallReadHashValues
    \/ CallUpdateHashValues
    \/ WriteLands
    \/ WriteDropped

CacheSpec == CacheInit /\ [][CacheNext]_vars

\* ------------------------------------ overlapping ensureForceUpload callers
\* Two callers invoke ensureForceUpload, one invocation after the other or
\* while the invocation of the other caller waits for its quick pick.  Every
\* invocation has its own locals: inv[k].b holds them for caller k.
Callers == {1, 2}

InvBatches ==
    UNION { { [i \in 1..n |-> ScriptT(AllNames[i], c[i], Str(HashX))] :
                c \in [1..n -> BOOLEAN] } : n \in 1..2 }

Idle ==
    [pc |-> "idle", idx |-> 0, singlescript |-> FALSE, decisions |-> <<>>, run |-> 0,
     prev |-> [all |-> FALSE, none |-> FALSE],
     b |-> [scripts |-> <<>>, all |-> FALSE, none |-> FALSE,
            noConflict |-> <<>>, forceUpload |-> <<>>, prompted |-> <<>>]]

InvInit ==
    /\ pc = "invocations"
    /\ scripts = <<>>
    /\ conf = ArrayOf(<<>>)
    /\ rootPath = TRUE
    /\ server \in Servers
    /\ cacheFile = File(<<>>)
    /\ pendingWrite = NoWrite
    /\ warnings = 0
    /\ all = FALSE /\ none = FALSE /\ singlescript = FALSE
    /\ noConflict = <<>> /\ forceUpload = <<>>
    /\ idx = 0
    /\ scripts0 = <<>>
    /\ decisions = <<>>
    /\ prompted = <<>>
    /\ calls = 0 /\ hist = <<>> /\ inflight = <<>>
    /\ inv = [k \in Callers |-> Idle]
    /\ started = 0
    /\ settings = NoUploadSettings /\ saves = <<>> /\ confUpdates = <<>>
    /\ NoLogin
    /\ NoConsole

pipelineVars == <<pc, scripts, conf, rootPath, server, cacheFile, pendingWrite, warnings,
                  all, none, singlescript, noConflict, forceUpload, idx,
                  scripts0, decisions, prompted, calls, hist, inflight,
                  settings, saves, confUpdates, loginVars, consoleVars>>

\* caller k calls ensureForceUpload: fresh locals, reduce() at the first script
InvEnsureForceUpload(k) ==
    /\ pc = "invocations"
    /\ inv[k].pc \in {"idle", "resolved"}
    /\ started < MaxInvocations
    /\ \E batch \in InvBatches :
          inv' = [inv EXCEPT ![k] =
                     [pc |-> "reduce", idx |-> 1, singlescript |-> (1 = Len(batch)),
                      decisions |-> <<>>, run |-> started + 1,
                      prev |-> [all |-> inv[k].b.all, none |-> inv[k].b.none],
                      b |-> BatchState(batch)]]
    /\ started' = started + 1
    /\ UNCHANGED pipelineVars

InvResolveWithoutPrompt(k) ==
    /\ inv[k].pc = "reduce"
    /\ inv[k].idx <= Len(inv[k].b.scripts)
    /\ LET a == AskForUpload(inv[k].b.scripts[inv[k].idx], inv[k].b.all, inv[k].b.none,
                             inv[k].singlescript)
       IN /\ ~a.prompt
          /\ inv' = [inv EXCEPT ![k].b = Route(@, inv[k].idx, a.value),
                                ![k].decisions = Append(@, a.value),
                                ![k].idx = @ + 1]
    /\ UNCHANGED started
    /\ UNCHANGED pipelineVars

InvShowQuickPick(k) ==
    /\ inv[k].pc = "reduce"
    /\ inv[k].idx <= Len(inv[k].b.scripts)
    /\ AskForUpload(inv[k].b.scripts[inv[k].idx], inv[k].b.all, inv[k].b.none,
                    inv[k].singlescript).prompt
    /\ inv' = [inv EXCEPT ![k].b.prompted = Append(@, inv[k].idx),
                          ![k].pc = "quickPick"]
    /\ UNCHANGED started
    /\ UNCHANGED pipelineVars

InvQuickPickReturns(k) ==
    /\ inv[k].pc = "quickPick"
    /\ \E value \in Selections(AskForUpload(inv[k].b.scripts[inv[k].idx], inv[k].b.all,
                                            inv[k].b.none, inv[k].singlescript).answers) :
          inv' = [inv EXCEPT ![k].b = Route(@, inv[k].idx, value),
                             ![k].decisions = Append(@, value),
                             ![k].idx = @ + 1,
                             ![k].pc = "reduce"]
    /\ UNCHANGED started
    /\ UNCHANGED pipelineVars

InvResolveArrays(k) ==
    /\ inv[k].pc = "reduce"
    /\ inv[k].idx > Len(inv[k].b.scripts)
    /\ inv' = [inv EXCEPT ![k].pc = "resolved"]
    /\ UNCHANGED started
    /\ UNCHANGED pipelineVars

InvNext ==
    \/ \E k \in Callers : InvEnsureForceUpload(k)
    \/ \E k \in Callers : InvResolveWithoutPrompt(k)
    \/ \E k \in Callers : InvShowQuickPick(k)
    \/ \E k \in Callers : InvQuickPickReturns(k)
    \/ \E k \in Callers : InvResolveArrays(k)

InvSpec == InvInit /\ [][InvNext]_vars

\* ------------------------------------------------- the batch under fairness
\* The promise chain of reduce() goes on whenever it can: a resolved
\* askForUpload runs its callback, the callback starts the next askForUpload,
\* the end of the chain resolves the arrays.  A quick pick that is shown is
\* answered or dismissed in the end.  Nothing makes the caller start a batch
\* or update the cache.
LiveInit ==
    /\ pc = "created"
    /\ scripts \in Batches
    /\ conf = ArrayOf(<<>>)
    /\ rootPath = TRUE
    /\ server \in Servers
    /\ cacheFile = File(<<>>)
    /\ pendingWrite = NoWrite
    /\ warnings = 0
    /\ all = FALSE /\ none = FALSE /\ singlescript = FALSE
    /\ noConflict = <<>> /\ forceUpload = <<>>
    /\ idx = 0
    /\ scripts0 = <<>>
    /\ decisions = <<>>
    /\ prompted = <<>>
    /\ calls = 0 /\ hist = <<>> /\ inflight = <<>>
    /\ inv = <<>> /\ started = 0
    /\ settings = NoUploadSettings /\ saves = <<>> /\ confUpdates = <<>>
    /\ NoLogin
    /\ NoConsole

LiveSpec ==
    /\ LiveInit
    /\ [][Next]_vars
    /\ WF_vars(ResolveWithoutPrompt)
    /\ WF_vars(ShowQuickPick)
    /\ WF_vars(QuickPickReturns)
    /\ WF_vars(ResolveArrays)

\* ------------------------------------------------ one batch after another
\* The caller runs the pipeline on a batch and, when the write of
\* updateHashValues has landed or failed, runs it again on the same scripts:
\* fresh script objects of the same names, without a lastSyncHash, with the
\* conflict flag the upload step gave them.  The locals of the invocation
\* that returned are gone; hist holds, for each batch done, the scripts that
\* were denied without a lastSyncHash.
MaxRounds == 2

RoundBatches == {b \in Batches : Len(b) \in 1..2}

RoundsInit ==
    /\ pc = "created"
    /\ scripts \in RoundBatches
    /\ conf \in {ArrayOf(<<>>), ArrayOf(<<AllNames[2]>>)}
    /\ rootPath = TRUE
    /\ server \in Servers
    /\ cacheFile \in {Missing, File(<<>>)}
    /\ pendingWrite = NoWrite
    /\ warnings = 0
    /\ all = FALSE /\ none = FALSE /\ singlescript = FALSE
    /\ noConflict = <<>> /\ forceUpload = <<>>
    /\ idx = 0
    /\ scripts0 = <<>>
    /\ decisions = <<>>
    /\ prompted = <<>>
    /\ calls = 0 /\ hist = <<>> /\ inflight = <<>>
    /\ inv = <<>> /\ started = 0
    /\ settings = NoUploadSettings /\ saves = <<>> /\ confUpdates = <<>>
    /\ NoLogin
    /\ NoConsole

\* the scripts of the batch that had no lastSyncHash and were denied: the
\* decision was No, remembered No or a dismissed quick pick
DeniedWithoutHash ==
    {j \in 1..Len(decisions) :
        /\ decisions[j] \in {FORCE_UPLOAD_NO, FORCE_UPLOAD_NONE, NoSelection}
        /\ ~Truthy(scripts0[j].lastSyncHash)}

NextBatch ==
    /\ pc = "updated"
    /\ ~pendingWrite.pending
    /\ started + 1 < MaxRounds
    /\ \E c \in [1..Len(scripts) -> BOOLEAN] :
          scripts' = [i \in 1..Len(scripts) |-> ScriptT(scripts[i].name, c[i], Undefined)]
    /\ hist' = Append(hist, DeniedWithoutHash)
    /\ started' = started + 1
    /\ pc' = "created"
    /\ all' = FALSE /\ none' = FALSE /\ singlescript' = FALSE
    /\ noConflict' = <<>> /\ forceUpload' = <<>>
    /\ idx' = 0
    /\ scripts0' = <<>>
    /\ decisions' = <<>>
    /\ prompted' = <<>>
    /\ UNCHANGED <<conf, rootPath, server, cacheFile, pendingWrite, warnings,
                   calls, inflight, inv, settings, saves, confUpdates, loginVars, consoleVars>>

RoundsNext ==
    \/ Next
    \/ NextBatch

RoundsSpec == RoundsInit /\ [][RoundsNext]_vars

\* ------------------------------------------------------ ensureUploadOnSave
\* ensureUploadOnSave is called for a saved file, any number of invocations
\* may wait for their quick pick at the same time; the conf.update calls an
\* answer starts are not awaited: they land later, in any order, or fail.
MaxSaves == 2

YES == "Yes"
NO == "No"
ALWAYS == "Always upload ${scriptname} automatically"
NEVER == "Never upload ${scriptname} automatically"
NEVERASK == "Never upload automatically"

DotJs == <<".", "j", "s">>
Slash == "/"

\* path.basename(param, ext) for a path without a trailing separator
Basename(param, ext) ==
    LET parts == Split(param, Slash)
        base == parts[Len(parts)]
    IN IF Len(base) > Len(ext) /\ SubSeq(base, Len(base) - Len(ext) + 1, Len(base)) = ext
       THEN SubSeq(base, 1, Len(base) - Len(ext))
       ELSE base

SaveParams ==
    {Undefined, Str(<<>>), Str(<<"a", ".", "j", "s">>),
     Str(<<"d", "/", "a", ".", "j", "s">>), Str(<<"b">>)}

UploadSettings ==
    {NotAnArray, ArrayOf(<<>>), ArrayOf(<<<<"a">>>>)}

\* ensureUploadOnSave up to the point where it settles or shows the quick
\* pick: state is "rejected", "resolved" or "prompt"
EnsureUploadOnSaveResult(param, sett) ==
    IF ~param.def \/ 0 = Len(param.val)
    THEN [state |-> "rejected", answer |-> "something is undefined", warned |-> FALSE,
          scriptname |-> <<>>, always |-> <<>>, never |-> <<>>]
    ELSE LET scriptname == Basename(param.val, DotJs)
             _always == sett.uploadOnSave
             _never == sett.uploadManually
         IN IF ~(_always.isArray /\ _never.isArray)
            THEN [state |-> "rejected", answer |-> "undefined", warned |-> TRUE,
                  scriptname |-> scriptname, always |-> <<>>, never |-> <<>>]
            ELSE IF IndexOfGE0(_never.list, scriptname)
            THEN [state |-> "resolved", answer |-> "no", warned |-> FALSE,
                  scriptname |-> scriptname, always |-> _always.list, never |-> _never.list]
            ELSE IF IndexOfGE0(_always.list, scriptname)
            THEN [state |-> "resolved", answer |-> "yes", warned |-> FALSE,
                  scriptname |-> scriptname, always |-> _always.list, never |-> _never.list]
            ELSE [state |-> "prompt", answer |-> "", warned |-> FALSE,
                  scriptname |-> scriptname, always |-> _always.list, never |-> _never.list]

\* the answers 'Always upload' and 'Never upload' given so far, per script
Remembered ==
    {[scriptname |-> saves[k].scriptname, choice |-> saves[k].choice] :
        k \in {k \in 1..Len(saves) : saves[k].choice \in {ALWAYS, NEVER}}}

SaveInit ==
    /\ pc = "save"
    /\ scripts = <<>>
    /\ conf = ArrayOf(<<>>)
    /\ rootPath = TRUE
    /\ server \in Servers
    /\ cacheFile = File(<<>>)
    /\ pendingWrite = NoWrite
    /\ warnings = 0
    /\ all = FALSE /\ none = FALSE /\ singlescript = FALSE
    /\ noConflict = <<>> /\ forceUpload = <<>>
    /\ idx = 0
    /\ scripts0 = <<>>
    /\ decisions = <<>>
    /\ prompted = <<>>
    /\ calls = 0 /\ hist = <<>> /\ inflight = <<>>
    /\ inv = <<>> /\ started = 0
    /\ settings \in [uploadOnSave : UploadSettings, uploadManually : UploadSettings,
                     uploadOnSaveGlobal : {TRUE}]
    /\ saves = <<>>
    /\ confUpdates = <<>>
    /\ NoLogin
    /\ NoConsole

saveFrame == <<pc, scripts, conf, rootPath, server, cacheFile, pendingWrite,
               all, none, singlescript, noConflict, forceUpload, idx,
               scripts0, decisions, prompted, calls, hist, inflight, inv, started,
               loginVars, consoleVars>>

\* the call: settled at once, or the quick pick is shown
EnsureUploadOnSave ==
    /\ pc = "save"
    /\ Len(saves) < MaxSaves
    /\ \E param \in SaveParams :
          LET r == EnsureUploadOnSaveResult(param, settings)
          IN /\ saves' = Append(saves,
                    [scriptname |-> r.scriptname, state |-> r.state, answer |-> r.answer,
                     asked |-> (r.state = "prompt"), always |-> r.always,
                     never |-> r.never, choice |-> "", known |-> Remembered])
             /\ warnings' = IF r.warned THEN warnings + 1 ELSE warnings
    /\ UNCHANGED <<settings, confUpdates>>
    /\ UNCHANGED saveFrame

\* the callback of showQuickPick(...).then for invocation k
UploadQuickPickReturns(k) ==
    /\ pc = "save"
    /\ saves[k].state = "prompt"
    /\ \E answer \in {YES, NO, ALWAYS, NEVER, NEVERASK, NoSelection} :
          /\ saves' = [saves EXCEPT
                ![k].choice = answer,
                ![k].state = IF answer = NoSelection THEN "pending" ELSE "resolved",
                ![k].answer = IF YES = answer THEN "yes"
                              ELSE IF NO = answer THEN "no"
                              ELSE IF ALWAYS = answer THEN "yes"
                              ELSE IF NEVER = answer THEN "no"
                              ELSE IF NEVERASK = answer THEN "never"
                              ELSE @]
          /\ confUpdates' =
                IF ALWAYS = answer
                THEN Append(confUpdates,
                            [key |-> "uploadOnSave",
                             value |-> ArrayOf(Append(saves[k].always, saves[k].scriptname))])
                ELSE IF NEVER = answer
                THEN Append(confUpdates,
                            [key |-> "uploadManually",
                             value |-> ArrayOf(Append(saves[k].never, saves[k].scriptname))])
                ELSE IF NEVERASK = answer
                THEN Append(confUpdates, [key |-> "uploadOnSaveGlobal", value |-> FALSE])
                ELSE confUpdates
    /\ UNCHANGED <<settings, warnings>>
    /\ UNCHANGED saveFrame

\* a conf.update lands: settings.json holds the new value
ConfUpdateLands ==
    /\ pc = "save"
    /\ \E k \in 1..Len(confUpdates) :
          /\ settings' = [settings EXCEPT ![confUpdates[k].key] = confUpdates[k].value]
          /\ confUpdates' = RemoveAt(confUpdates, k)
    /\ UNCHANGED <<saves, warnings>>
    /\ UNCHANGED saveFrame

\* a conf.update fails; nobody looks at the failure
ConfUpdateFails ==
    /\ pc = "save"
    /\ \E k \in 1..Len(confUpdates) : confUpdates' = RemoveAt(confUpdates, k)
    /\ UNCHANGED <<settings, saves, warnings>>
    /\ UNCHANGED saveFrame

SaveNext ==
    \/ EnsureUploadOnSave
    \/ \E k \in 1..Len(saves) : UploadQuickPickReturns(k)
    \/ ConfUpdateLands
    \/ ConfUpdateFails

SaveSpec == SaveInit /\ [][SaveNext]_vars

\* ------------------------------------------------------ ensureLoginInformation
\* ensureLoginInformation calls made in LoginSpec
MaxLogins == 2

\* loginData.askForPasswordStr, and the literal createLaunchJson writes
AskForPasswordStr == "${command:extension.vscode-janus-debug.askForPassword}"
\* showInputBox returns undefined when the input box is cancelled
NoInput == "undefined"
\* the operand of `!x` for the value of an input box
Falsy(x) == x = NoInput \/ x = ""

\* Number(port) for the ports typed in
ToNumber(s) == IF s = "11000" THEN 11000 ELSE IF s = "0" THEN 0 ELSE -1

\* what the user types into the input boxes
Hostnames == {NoInput, "", "localhost"}
Ports == {NoInput, "", "11000", "0"}
Principals == {NoInput, "", "dopaag"}
Usernames == {NoInput, "", "admin"}
Passwords == {NoInput, "", "secret", AskForPasswordStr}

\* one entry of 'configurations' in launch.json
Config(type, request, host, password) ==
    [type |-> type, request |-> request, host |-> host, applicationPort |-> 11000,
     principal |-> "dopaag", username |-> "admin", password |-> password]

LaunchJson(configs) == [exists |-> TRUE, configurations |-> configs]

\* launch.json when the extension is activated
LaunchJsonFiles ==
    {NoLaunchJson,
     LaunchJson(<<>>),
     LaunchJson(<<Config("janus", "attach", "localhost", "secret")>>),
     LaunchJson(<<Config("janus", "launch", "localhost", "secret")>>),
     LaunchJson(<<Config("janus", "launch", "localhost", AskForPasswordStr)>>),
     LaunchJson(<<Config("janus", "launch", "localhost", AskForPasswordStr),
                  Config("janus", "launch", "", "secret")>>)}

\* nodeDoc.LoginData.checkLoginData: server, port, principal and username are set
CheckLoginData(login) ==
    /\ login.server # ""
    /\ login.port # 0
    /\ login.principal # ""
    /\ login.username # ""

\* the forEach of loadConfigFile
RECURSIVE LoadConfigurations(_, _)
LoadConfigurations(login, configurations) ==
    IF configurations = <<>> THEN login
    ELSE LET config == Head(configurations)
             loaded ==
                 IF config.type = "janus" /\ config.request = "launch"
                 THEN [login EXCEPT
                          !.server = config.host,
                          !.port = config.applicationPort,
                          !.principal = config.principal,
                          !.username = config.username,
                          !.askForPassword =
                              IF AskForPasswordStr = config.password THEN TRUE ELSE @,
                          !.password = config.password]
                 ELSE login
         IN LoadConfigurations(loaded, Tail(configurations))

\* the login data after loadConfigFile; readFileSync throws when there is no file
LoadConfigFile(login, file) ==
    IF file.exists THEN LoadConfigurations(login, file.configurations) ELSE login

\* activate: the login data is constructed and launch.json is loaded when a
\* folder is open
LoginInit ==
    /\ pc = "login"
    /\ scripts = <<>>
    /\ conf = ArrayOf(<<>>)
    /\ rootPath \in BOOLEAN
    /\ server \in Servers
    /\ cacheFile = File(<<>>)
    /\ pendingWrite = NoWrite
    /\ warnings = 0
    /\ all = FALSE /\ none = FALSE /\ singlescript = FALSE
    /\ noConflict = <<>> /\ forceUpload = <<>>
    /\ idx = 0
    /\ scripts0 = <<>>
    /\ decisions = <<>>
    /\ prompted = <<>>
    /\ calls = 0 /\ hist = <<>> /\ inflight = <<>>
    /\ inv = <<>> /\ started = 0
    /\ settings = NoUploadSettings /\ saves = <<>> /\ confUpdates = <<>>
    /\ launchJson \in LaunchJsonFiles
    /\ (~rootPath => launchJson = NoLaunchJson)
    /\ loginData = IF rootPath THEN LoadConfigFile(EmptyLoginData, launchJson)
                   ELSE EmptyLoginData
    /\ flow = NoFlow
    /\ logins = 0
    /\ NoConsole

loginFrame == <<pc, scripts, conf, rootPath, server, cacheFile, pendingWrite,
                all, none, singlescript, noConflict, forceUpload, idx,
                scripts0, decisions, prompted, calls, hist, inflight, inv, started,
                settings, saves, confUpdates, consoleVars>>

\* the first test of ensureLoginInformation: nothing has to be asked
LoginDataReady(login) ==
    CheckLoginData(login) /\ ~(login.askForPassword /\ AskForPasswordStr = login.password)

\* the test of ensureLoginInformation after getLoginData resolved
LoginDataComplete(login) ==
    CheckLoginData(login) /\ AskForPasswordStr # login.password

\* getLoginData resolved: ensureLoginInformation resolves or rejects
AfterGetLoginData(f, login) ==
    [f EXCEPT !.got = "resolved",
              !.at = IF LoginDataComplete(login) THEN "resolved" ELSE "rejected",
              !.settledWith = login]

\* an input box was cancelled: askForLoginData or askForPassword rejects,
\* getLoginData rejects and ensureLoginInformation rejects with the reason
InputCancelled(f, login) ==
    [f EXCEPT !.got = "rejected", !.at = "rejected", !.cancelled = TRUE,
              !.settledWith = login]

\* createLaunchJson rejected: getLoginData warns and resolves
DidNotSave(f, login) ==
    AfterGetLoginData([f EXCEPT !.saved = "failed", !.warned = TRUE], login)

\* the call, and getLoginData up to its first input box
EnsureLoginInformation ==
    /\ pc = "login"
    /\ flow.at \in {"idle", "resolved", "rejected"}
    /\ logins < MaxLogins
    /\ logins' = logins + 1
    /\ flow' =
          IF LoginDataReady(loginData)
          THEN [NoFlow EXCEPT !.at = "resolved", !.before = loginData,
                              !.settledWith = loginData]
          ELSE IF ~CheckLoginData(loginData)
          THEN [NoFlow EXCEPT !.at = "hostname", !.asked = "loginData",
                              !.before = loginData]
          ELSE [NoFlow EXCEPT !.at = "askForPassword", !.asked = "password",
                              !.before = loginData]
    /\ UNCHANGED <<loginData, launchJson, warnings>>
    /\ UNCHANGED loginFrame

\* askForLoginData: the input box of the hostname returns
HostnameReturns ==
    /\ pc = "login"
    /\ flow.at = "hostname"
    /\ \E input \in Hostnames :
          flow' = IF Falsy(input) THEN InputCancelled(flow, loginData)
                  ELSE [flow EXCEPT !.hostname = input, !.at = "port"]
    /\ UNCHANGED <<loginData, launchJson, logins, warnings>>
    /\ UNCHANGED loginFrame

PortReturns ==
    /\ pc = "login"
    /\ flow.at = "port"
    /\ \E input \in Ports :
          flow' = IF Falsy(input) THEN InputCancelled(flow, loginData)
                  ELSE [flow EXCEPT !.port = input, !.at = "principal"]
    /\ UNCHANGED <<loginData, launchJson, logins, warnings>>
    /\ UNCHANGED loginFrame

PrincipalReturns ==
    /\ pc = "login"
    /\ flow.at = "principal"
    /\ \E input \in Principals :
          flow' = IF Falsy(input) THEN InputCancelled(flow, loginData)
                  ELSE [flow EXCEPT !.principal = input, !.at = "username"]
    /\ UNCHANGED <<loginData, launchJson, logins, warnings>>
    /\ UNCHANGED loginFrame

\* the input box of the username returns; the four values are stored and the
\* input box of the password is shown
UsernameReturns ==
    /\ pc = "login"
    /\ flow.at = "username"
    /\ \E input \in Usernames :
          IF Falsy(input)
          THEN /\ flow' = InputCancelled(flow, loginData)
               /\ UNCHANGED loginData
          ELSE /\ loginData' = [loginData EXCEPT
                     !.server = flow.hostname,
                     !.port = ToNumber(flow.port),
                     !.principal = flow.principal,
                     !.username = input]
               /\ flow' = [flow EXCEPT !.at = "password"]
    /\ UNCHANGED <<launchJson, logins, warnings>>
    /\ UNCHANGED loginFrame

\* the input box of the password of askForLoginData returns
PasswordReturns ==
    /\ pc = "login"
    /\ flow.at = "password"
    /\ \E input \in Passwords :
          IF input = NoInput
          THEN /\ flow' = InputCancelled(flow, loginData)
               /\ UNCHANGED loginData
          ELSE /\ loginData' = [loginData EXCEPT !.password = input]
               /\ flow' = [flow EXCEPT !.at = "savePw"]
    /\ UNCHANGED <<launchJson, logins, warnings>>
    /\ UNCHANGED loginFrame

\* the quick pick "Save password to launch.json?" returns, askForLoginData
\* resolves, and createLaunchJson runs up to fs.stat
SavePwReturns ==
    /\ pc = "login"
    /\ flow.at = "savePw"
    /\ \E savePw \in {"Yes", "No", NoSelection} :
          LET login == [loginData EXCEPT
                           !.askForPassword = IF "Yes" = savePw THEN FALSE
                                              ELSE IF "No" = savePw THEN TRUE
                                              ELSE @]
          IN /\ loginData' = login
             /\ flow' = IF rootPath THEN [flow EXCEPT !.at = "stat"]
                        ELSE DidNotSave(flow, login)
             /\ warnings' = IF rootPath THEN warnings ELSE warnings + 1
    /\ UNCHANGED <<launchJson, logins>>
    /\ UNCHANGED loginFrame

\* the initial configuration written for the login data
InitialConfigurations(login) ==
    LaunchJson(<<[type |-> "janus", request |-> "launch", host |-> login.server,
                  applicationPort |-> login.port, principal |-> login.principal,
                  username |-> login.username,
                  password |-> IF login.askForPassword THEN AskForPasswordStr
                               ELSE login.password]>>)

\* the error codes fs.stat can call back with for the file
StatErrors(file) == IF file.exists THEN {"none", "EACCES"} ELSE {"ENOENT", "EACCES"}

\* the callback of fs.stat: write the file, or reject
AfterStat_WritesAnyway(err) == IF err = "EACCES" THEN "reject" ELSE "write"

AfterStat(err) == IF err = "ENOENT" THEN "write" ELSE "reject"

StatReturns ==
    /\ pc = "login"
    /\ flow.at = "stat"
    /\ \E err \in StatErrors(launchJson) :
          IF AfterStat(err) = "write"
          THEN /\ flow' = [flow EXCEPT !.at = "write", !.statSaw = err,
                                       !.data = InitialConfigurations(loginData)]
               /\ UNCHANGED warnings
          ELSE /\ flow' = DidNotSave([flow EXCEPT !.statSaw = err], loginData)
               /\ warnings' = warnings + 1
    /\ UNCHANGED <<loginData, launchJson, logins>>
    /\ UNCHANGED loginFrame

\* nodeDoc.writeFile resolves: launch.json holds the data
LaunchJsonWritten ==
    /\ pc = "login"
    /\ flow.at = "write"
    /\ launchJson' = flow.data
    /\ flow' = AfterGetLoginData([flow EXCEPT !.saved = "written"], loginData)
    /\ UNCHANGED <<loginData, logins, warnings>>
    /\ UNCHANGED loginFrame

\* nodeDoc.writeFile rejects
LaunchJsonWriteFails ==
    /\ pc = "login"
    /\ flow.at = "write"
    /\ flow' = DidNotSave(flow, loginData)
    /\ warnings' = warnings + 1
    /\ UNCHANGED <<loginData, launchJson, logins>>
    /\ UNCHANGED loginFrame

\* askForPassword: its input box returns
AskForPasswordReturns ==
    /\ pc = "login"
    /\ flow.at = "askForPassword"
    /\ \E input \in Passwords :
          IF input = NoInput
          THEN /\ flow' = InputCancelled(flow, loginData)
               /\ UNCHANGED loginData
          ELSE LET login == [loginData EXCEPT !.password = input]
               IN /\ loginData' = login
                  /\ flow' = AfterGetLoginData(flow, login)
    /\ UNCHANGED <<launchJson, logins, warnings>>
    /\ UNCHANGED loginFrame

LoginNext ==
    \/ EnsureLoginInformation
    \/ HostnameReturns
    \/ PortReturns
    \/ PrincipalReturns
    \/ UsernameReturns
    \/ PasswordReturns
    \/ SavePwReturns
    \/ StatReturns
    \/ LaunchJsonWritten
    \/ LaunchJsonWriteFails
    \/ AskForPasswordReturns

LoginSpec == LoginInit /\ [][LoginNext]_vars

\* ------------------------------------------------------ reconnectServerConsole
\* reconnectServerConsole invocations started in ConsoleSpec
MaxReconnects == 2

\* launch.json as the watcher and the server console find it
WatchedLaunchJsonFiles ==
    {NoLaunchJson,
     LaunchJson(<<Config("node", "launch", "other", "secret"),
                  Config("janus", "launch", "localhost", "secret")>>),
     LaunchJson(<<Config("janus", "launch", "", "secret"),
                  Config("janus", "launch", "localhost", "secret")>>),
     LaunchJson(<<Config("janus", "attach", "remote", AskForPasswordStr)>>)}

\* getLaunchConfigFromDisk and launchJson.get('configurations', []): nothing
\* without a folder or without a readable file
ConfigurationsOnDisk(file) ==
    IF rootPath /\ file.exists THEN file.configurations ELSE <<>>

\* the loop of reconnectServerConsole: the first configuration of type 'janus'
FirstJanus(configs) ==
    IF \E k \in 1..Len(configs) : configs[k].type = "janus"
    THEN LET k == CHOOSE k \in 1..Len(configs) :
                      /\ configs[k].type = "janus"
                      /\ \A m \in 1..(k-1) : configs[m].type # "janus"
         IN [found |-> TRUE, hostname |-> configs[k].host,
             port |-> configs[k].applicationPort]
    ELSE [found |-> FALSE, hostname |-> "", port |-> 0]

\* `hostname && port`
CanConnect(target) == target.found /\ target.hostname # "" /\ target.port # 0

\* an entry of the history of the server console
ConsoleEvent(op, by, hostname, port) ==
    [op |-> op, by |-> by, hostname |-> hostname, port |-> port]

ConsoleInit ==
    /\ pc = "console"
    /\ scripts = <<>>
    /\ conf = ArrayOf(<<>>)
    /\ rootPath \in BOOLEAN
    /\ server \in Servers
    /\ cacheFile = File(<<>>)
    /\ pendingWrite = NoWrite
    /\ warnings = 0
    /\ all = FALSE /\ none = FALSE /\ singlescript = FALSE
    /\ noConflict = <<>> /\ forceUpload = <<>>
    /\ idx = 0
    /\ scripts0 = <<>>
    /\ decisions = <<>>
    /\ prompted = <<>>
    /\ calls = 0 /\ hist = <<>> /\ inflight = <<>>
    /\ inv = <<>> /\ started = 0
    /\ settings = NoUploadSettings /\ saves = <<>> /\ confUpdates = <<>>
    /\ launchJson \in WatchedLaunchJsonFiles
    /\ (~rootPath => launchJson = NoLaunchJson)
    /\ loginData = IF rootPath THEN LoadConfigFile(EmptyLoginData, launchJson)
                   ELSE EmptyLoginData
    /\ flow = NoFlow
    /\ logins = 0
    /\ autoConnectServerConsole \in BOOLEAN
    /\ reconnects = <<>>
    /\ consoleLog = <<>>

consoleFrame == <<pc, scripts, conf, rootPath, server, cacheFile, pendingWrite, warnings,
                  all, none, singlescript, noConflict, forceUpload, idx,
                  scripts0, decisions, prompted, calls, hist, inflight, inv, started,
                  settings, saves, confUpdates, flow, logins, autoConnectServerConsole>>

\* reconnectServerConsole up to its first await: console.disconnect() is called
\* at once, whatever the other invocations are doing
ReconnectServerConsole ==
    /\ Len(reconnects) < MaxReconnects
    /\ reconnects' = Append(reconnects, "disconnect")
    /\ consoleLog' = Append(consoleLog,
                            ConsoleEvent("disconnect", Len(reconnects) + 1, "", 0))

\* the command extension.vscode-janus.debug.connectServerConsole
ConnectServerConsole ==
    /\ pc = "console"
    /\ ReconnectServerConsole
    /\ UNCHANGED <<loginData, launchJson>>
    /\ UNCHANGED consoleFrame

\* the handler of the watcher for a launch.json that was created or changed
LaunchJsonEvent(file) ==
    /\ IF autoConnectServerConsole
       THEN ReconnectServerConsole
       ELSE UNCHANGED <<reconnects, consoleLog>>
    /\ launchJson' = file
    /\ loginData' = LoadConfigFile(loginData, file)
    /\ UNCHANGED consoleFrame

\* launchJsonWatcher.onDidCreate
OnDidCreate ==
    /\ pc = "console"
    /\ rootPath
    /\ ~launchJson.exists
    /\ \E file \in WatchedLaunchJsonFiles \ {NoLaunchJson} : LaunchJsonEvent(file)

\* launchJsonWatcher.onDidChange
OnDidChange ==
    /\ pc = "console"
    /\ rootPath
    /\ launchJson.exists
    /\ \E file \in WatchedLaunchJsonFiles \ {NoLaunchJson} : LaunchJsonEvent(file)

\* console.disconnect() of invocation k resolves: launch.json is being read
DisconnectCompletes(k) ==
    /\ pc = "console"
    /\ reconnects[k] = "disconnect"
    /\ reconnects' = [reconnects EXCEPT ![k] = "read"]
    /\ consoleLog' = Append(consoleLog, ConsoleEvent("disconnected", k, "", 0))
    /\ UNCHANGED <<loginData, launchJson>>
    /\ UNCHANGED consoleFrame

\* console.disconnect() of invocation k rejects: the error is swallowed and
\* there is no hostname to connect to
DisconnectFails(k) ==
    /\ pc = "console"
    /\ reconnects[k] = "disconnect"
    /\ reconnects' = [reconnects EXCEPT ![k] = "done"]
    /\ UNCHANGED <<consoleLog, loginData, launchJson>>
    /\ UNCHANGED consoleFrame

\* getLaunchConfigFromDisk of invocation k resolves: connect if there is a
\* hostname and a port
LaunchConfigRead(k) ==
    /\ pc = "console"
    /\ reconnects[k] = "read"
    /\ reconnects' = [reconnects EXCEPT ![k] = "done"]
    /\ LET target == FirstJanus(ConfigurationsOnDisk(launchJson))
       IN consoleLog' =
             IF CanConnect(target)
             THEN Append(consoleLog,
                         ConsoleEvent("connect", k, target.hostname, target.port))
             ELSE consoleLog
    /\ UNCHANGED <<loginData, launchJson>>
    /\ UNCHANGED consoleFrame

ConsoleNext ==
    \/ ConnectServerConsole
    \/ OnDidCreate
    \/ OnDidChange
    \/ \E k \in 1..Len(reconnects) : DisconnectCompletes(k)
    \/ \E k \in 1..Len(reconnects) : DisconnectFails(k)
    \/ \E k \in 1..Len(reconnects) : LaunchConfigRead(k)

ConsoleSpec == ConsoleInit /\ [][ConsoleNext]_vars

\* ================================================================== claims
InSeq(x, seq) == \E k \in 1..Len(seq) : seq[k] = x
Decided(j) == j \in 1..Len(decisions)
\* the name is in the exemption list
Exempt(name) == conf.isArray /\ IndexOfGE0(conf.list, name)
\* the script was unresolved when the batch started: flagged, or without a hash
Unresolved0(j) == scripts0[j].conflict \/ ~Truthy(scripts0[j].lastSyncHash)
\* a decision that latches the policy
Latches(value) == value \in {FORCE_UPLOAD_ALL, FORCE_UPLOAD_NONE, NoSelection}
Batch == pc \in {"reduce", "quickPick", "resolved", "updated"}

\* C1 (as claimed): every script whose name is in the exemption list and that
\* the annotation pass marked conflictMode=false is decided 'No conflict' and
\* never prompted for.
C1_ExemptNeverPrompted ==
    Batch =>
        \A j \in 1..Len(scripts0) :
            (Exempt(scripts0[j].name) /\ scripts0[j].conflictMode = FALSE) =>
                /\ ~InSeq(j, prompted)
                /\ Decided(j) => decisions[j] = NO_CONFLICT

\* C2 (as claimed): in the batch [S1 flagged with a hash, S2 without a hash,
\* S3 exempt] answered 'Yes (remember)' on S1 the result is forceUpload=[S1,S2],
\* noConflict=[S3] with the single prompt of S1; and after any remembered Yes
\* every later exempt script is in noConflict and not in forceUpload and every
\* later unresolved non-exempt script is in forceUpload.
C2_ScenarioAndExemptAfterAll ==
    pc = "resolved" =>
        /\ ( /\ Len(scripts0) = 3
             /\ scripts0[1].conflict /\ Truthy(scripts0[1].lastSyncHash)
             /\ ~scripts0[2].conflict /\ scripts0[2].lastSyncHash = Undefined
             /\ ~Exempt(scripts0[1].name) /\ ~Exempt(scripts0[2].name)
             /\ Exempt(scripts0[3].name) /\ scripts0[3].conflictMode = FALSE
             /\ decisions[1] = FORCE_UPLOAD_ALL )
           => (forceUpload = <<1, 2>> /\ noConflict = <<3>> /\ prompted = <<1>>)
        /\ \A i \in 1..Len(decisions) : \A j \in (i+1)..Len(decisions) :
              (decisions[i] = FORCE_UPLOAD_ALL /\ InSeq(i, prompted)) =>
                  IF Exempt(scripts0[j].name) /\ scripts0[j].conflictMode = FALSE
                  THEN InSeq(j, noConflict) /\ ~InSeq(j, forceUpload)
                  ELSE Unresolved0(j) => InSeq(j, forceUpload)

\* C3 (as claimed): once a decision was 'Yes (remember)', every later script
\* of the batch is in forceUpload with forceUpload=true and is not prompted for.
C3_AllLaterForced ==
    Batch =>
        \A i \in 1..Len(decisions) : decisions[i] = FORCE_UPLOAD_ALL =>
            /\ \A k \in 1..Len(prompted) : prompted[k] <= i
            /\ \A j \in (i+1)..Len(decisions) :
                  InSeq(j, forceUpload) /\ scripts[j].forceUpload

\* C3 (amended): once a decision was 'Yes (remember)', no later script is
\* prompted for; every later script that is unresolved (flagged, or without a
\* hash) is decided 'Yes (remember)' and is in forceUpload with
\* forceUpload=true and conflict=false; every later script that is not
\* flagged and has a hash is decided 'No conflict' and is in noConflict.
C3_UnresolvedLaterForced ==
    Batch =>
        \A i \in 1..Len(decisions) : decisions[i] = FORCE_UPLOAD_ALL =>
            /\ \A k \in 1..Len(prompted) : prompted[k] <= i
            /\ \A j \in (i+1)..Len(decisions) :
                  IF Unresolved0(j)
                  THEN /\ decisions[j] = FORCE_UPLOAD_ALL
                       /\ InSeq(j, forceUpload) /\ ~InSeq(j, noConflict)
                       /\ scripts[j].forceUpload /\ ~scripts[j].conflict
                  ELSE /\ decisions[j] = NO_CONFLICT
                       /\ InSeq(j, noConflict) /\ ~InSeq(j, forceUpload)
                       /\ scripts[j] = scripts0[j]

C3_Witness ==
    /\ pc = "resolved"
    /\ Len(decisions) = 3
    /\ decisions[1] = FORCE_UPLOAD_ALL
    /\ Unresolved0(2) /\ ~Unresolved0(3)
    /\ prompted = <<1>>

\* C4 (as claimed): once a decision was 'No (remember)', every later script of
\* the batch is in neither array, has its record unmodified and is not
\* prompted for.
C4_NoneLaterDenied ==
    Batch =>
        \A i \in 1..Len(decisions) : decisions[i] = FORCE_UPLOAD_NONE =>
            /\ \A k \in 1..Len(prompted) : prompted[k] <= i
            /\ \A j \in (i+1)..Len(decisions) :
                  /\ ~InSeq(j, forceUpload) /\ ~InSeq(j, noConflict)
                  /\ scripts[j] = scripts0[j]

\* C4 (amended): once a decision was 'No (remember)', no later script is
\* prompted for and no later record is modified; every later script that is
\* unresolved (flagged, or without a hash) is decided 'No (remember)' and is
\* in neither array; every later script that is not flagged and has a hash is
\* decided 'No conflict' and is in noConflict.
C4_UnresolvedLaterDenied ==
    Batch =>
        \A i \in 1..Len(decisions) : decisions[i] = FORCE_UPLOAD_NONE =>
            /\ \A k \in 1..Len(prompted) : prompted[k] <= i
            /\ \A j \in (i+1)..Len(decisions) :
                  /\ scripts[j] = scripts0[j]
                  /\ ~InSeq(j, forceUpload)
                  /\ IF Unresolved0(j)
                     THEN decisions[j] = FORCE_UPLOAD_NONE /\ ~InSeq(j, noConflict)
                     ELSE decisions[j] = NO_CONFLICT /\ InSeq(j, noConflict)

C4_Witness ==
    /\ pc = "resolved"
    /\ Len(decisions) = 3
    /\ decisions[1] = FORCE_UPLOAD_NONE
    /\ ~Unresolved0(2) /\ Unresolved0(3)
    /\ prompted = <<1>>

\* C5 (as claimed): every non-exempt script without a lastSyncHash is
\* prompted for, whatever the policy flags are.
C5_NoHashAlwaysPrompts ==
    Batch =>
        \A j \in 1..Len(decisions) :
            (~Exempt(scripts0[j].name) /\ ~Truthy(scripts0[j].lastSyncHash)) =>
                InSeq(j, prompted)

\* C5 (amended): for a non-exempt script without a lastSyncHash askForUpload
\* shows a prompt exactly when neither all nor none is set, i.e. when no
\* earlier decision of the batch was 'Yes (remember)', 'No (remember)' or a
\* dismissal; with all set it resolves 'Yes (remember)', with only none set
\* 'No (remember)'; it never resolves 'No conflict'.
C5_NoHashPromptsUnlessLatched ==
    /\ (pc = "reduce" /\ idx <= Len(scripts)
          /\ ~Exempt(scripts[idx].name) /\ ~Truthy(scripts[idx].lastSyncHash)) =>
         LET a == AskForUpload(scripts[idx], all, none, singlescript)
         IN /\ a.prompt <=> (~all /\ ~none)
            /\ all => a.value = FORCE_UPLOAD_ALL
            /\ (~all /\ none) => a.value = FORCE_UPLOAD_NONE
    /\ Batch =>
         \A j \in 1..Len(decisions) :
            (~Exempt(scripts0[j].name) /\ ~Truthy(scripts0[j].lastSyncHash)) =>
                /\ decisions[j] # NO_CONFLICT
                /\ InSeq(j, prompted) <=> ~\E i \in 1..(j-1) : Latches(decisions[i])

C5_Witness ==
    /\ pc = "resolved"
    /\ Len(decisions) = 2
    /\ ~Exempt(scripts0[2].name) /\ ~Truthy(scripts0[2].lastSyncHash)
    /\ ~scripts0[2].conflict
    /\ decisions = <<FORCE_UPLOAD_ALL, FORCE_UPLOAD_ALL>>
    /\ prompted = <<1>>

\* C6: in every state where a quick pick is open for script i, dismissing it
\* and answering 'No (remember)' lead to the same final result of the batch
\* (both arrays, all script records, the policy flags and the prompts shown
\* for the later scripts), whatever is answered later; and once a quick pick
\* was dismissed for script i, no script from i on is in forceUpload.
C6_DismissEqualsNone ==
    /\ pc = "quickPick" =>
         \A sel \in [(idx+1)..Len(scripts) ->
                        {FORCE_UPLOAD_YES, FORCE_UPLOAD_NO, FORCE_UPLOAD_ALL,
                         FORCE_UPLOAD_NONE, NoSelection}] :
            Reduce(Route(Current, idx, NoSelection), idx + 1, sel)
              = Reduce(Route(Current, idx, FORCE_UPLOAD_NONE), idx + 1, sel)
    /\ Batch =>
         \A i \in 1..Len(decisions) : decisions[i] = NoSelection =>
            \A k \in 1..Len(forceUpload) : forceUpload[k] < i

C6_Witness ==
    /\ pc = "resolved"
    /\ Len(decisions) = 3
    /\ decisions[1] = FORCE_UPLOAD_YES
    /\ decisions[2] = NoSelection
    /\ Unresolved0(3)
    /\ forceUpload = <<1>>

\* C7 (as claimed): a dismissed quick pick does not change the decision of a
\* later script: a later unresolved script is still prompted for.
C7_DismissDeniesOnlyOne ==
    Batch =>
        \A i \in 1..Len(decisions) : decisions[i] = NoSelection =>
            \A j \in (i+1)..Len(decisions) : Unresolved0(j) => InSeq(j, prompted)

\* C7 (amended): a dismissed quick pick latches none: the script it was shown
\* for and every later unresolved script of the batch are denied (in neither
\* array, record unmodified) and no later script is prompted for or
\* force-uploaded; a later script that is not flagged and has a hash still
\* goes to noConflict; the batch goes on to its end without waiting for the
\* user again.
C7_DismissDeniesRest ==
    Batch =>
        \A i \in 1..Len(decisions) : decisions[i] = NoSelection =>
            /\ none
            /\ ~InSeq(i, forceUpload) /\ ~InSeq(i, noConflict)
            /\ scripts[i] = scripts0[i]
            /\ \A k \in 1..Len(prompted) : prompted[k] <= i
            /\ pc # "quickPick"
            /\ (pc = "reduce" /\ idx <= Len(scripts)) =>
                  ~AskForUpload(scripts[idx], all, none, singlescript).prompt
            /\ \A j \in (i+1)..Len(decisions) :
                  /\ scripts[j] = scripts0[j]
                  /\ ~InSeq(j, forceUpload)
                  /\ IF Unresolved0(j)
                     THEN decisions[j] = FORCE_UPLOAD_NONE /\ ~InSeq(j, noConflict)
                     ELSE decisions[j] = NO_CONFLICT /\ InSeq(j, noConflict)

C7_Witness ==
    /\ pc = "resolved"
    /\ Len(decisions) = 3
    /\ decisions[1] = NoSelection
    /\ Unresolved0(2) /\ Unresolved0(3)
    /\ noConflict = <<>> /\ forceUpload = <<>>

\* C8: the arrays noConflict and forceUpload share no script, hold no script
\* twice, and their lengths sum to at most the length of the input.
C8_DisjointAndBounded ==
    /\ \A k \in 1..Len(noConflict) : ~InSeq(noConflict[k], forceUpload)
    /\ \A k, m \in 1..Len(noConflict) : noConflict[k] = noConflict[m] => k = m
    /\ \A k, m \in 1..Len(forceUpload) : forceUpload[k] = forceUpload[m] => k = m
    /\ Len(noConflict) + Len(forceUpload) <= Len(scripts)

C8_Witness ==
    /\ pc = "resolved"
    /\ Len(scripts) = 3
    /\ Len(noConflict) = 1 /\ Len(forceUpload) = 1
    /\ decisions[1] = FORCE_UPLOAD_YES

\* C9: for a batch of exactly one unresolved script whose quick pick is
\* dismissed, both arrays are empty when the batch is resolved and the script
\* record is the one the batch was called with.
C9_SingleDismissed ==
    (pc \in {"resolved", "updated"} /\ Len(scripts0) = 1 /\ Unresolved0(1)
        /\ decisions = <<NoSelection>>) =>
       /\ noConflict = <<>>
       /\ forceUpload = <<>>
       /\ scripts = scripts0

C9_Witness ==
    /\ pc = "resolved"
    /\ Len(scripts0) = 1
    /\ Unresolved0(1)
    /\ prompted = <<1>>
    /\ decisions = <<NoSelection>>

\* the lines of the cache file stored for an identity name@server
EntriesFor(file, scriptAtServer) ==
    IF file.state = "ok"
    THEN SelectSeq(ReadLines(file), LAMBDA line : ScriptPart(line) = scriptAtServer)
    ELSE <<>>

\* C10: no step changes the cache lines stored for the identity of a script
\* whose conflict flag is true: updateHashValues and the write it starts
\* neither add, modify nor remove them.
C10_ConflictedEntryKept ==
    [][\A i \in 1..Len(scripts) :
          scripts[i].conflict = TRUE =>
              EntriesFor(cacheFile', ScriptAtServer(scripts[i].name, server))
                = EntriesFor(cacheFile, ScriptAtServer(scripts[i].name, server))]_vars

C10_Witness ==
    /\ pc = "updated"
    /\ ~pendingWrite.pending
    /\ Len(scripts) >= 2
    /\ scripts[1].conflict = TRUE /\ Truthy(scripts[1].lastSyncHash)
    /\ scripts[2].conflict = FALSE
    /\ EntriesFor(cacheFile, ScriptAtServer(scripts[1].name, server))
         = <<Line(scripts[1].name, server, HashY)>>
    /\ EntriesFor(cacheFile, ScriptAtServer(scripts[2].name, server))
         = <<Line(scripts[2].name, server, ToStr(scripts[2].lastSyncHash))>>

\* C12: the scripts are resolved in input order, one at a time: the resolver
\* of script idx runs only when the decisions of all scripts before it were
\* received and applied, policy latch included; at most one quick pick is
\* open and quick picks are shown in input order.
C12_OneAtATimeInOrder ==
    Batch =>
        /\ pc \in {"reduce", "quickPick"} => Len(decisions) = idx - 1
        /\ pc = "quickPick" => (prompted # <<>> /\ prompted[Len(prompted)] = idx)
        /\ \A k, m \in 1..Len(prompted) : k < m => prompted[k] < prompted[m]
        /\ Cardinality({k \in 1..Len(prompted) : prompted[k] > Len(decisions)})
             <= (IF pc = "quickPick" THEN 1 ELSE 0)
        /\ \A i \in 1..Len(decisions) :
              /\ decisions[i] = FORCE_UPLOAD_ALL => all
              /\ decisions[i] \in {FORCE_UPLOAD_NONE, NoSelection} => none
              /\ decisions[i] \in {FORCE_UPLOAD_YES, FORCE_UPLOAD_ALL} => scripts[i].forceUpload

C12_Witness ==
    /\ pc = "quickPick"
    /\ idx = 3
    /\ prompted = <<1, 2, 3>>
    /\ decisions = <<FORCE_UPLOAD_YES, FORCE_UPLOAD_NO>>

\* C14: the decision of askForUpload follows the ordered rules (no conflict
\* and a hash: 'No conflict' without a prompt; else all: remembered Yes; else
\* none: remembered No; else a quick pick whose selection is the decision); a
\* script without a hash and a flagged script get the same decision for the
\* same policy; a script is in noConflict exactly when its decision was
\* 'No conflict'.
C14_OrderedRules ==
    /\ (pc = "reduce" /\ idx <= Len(scripts)) =>
         \A pall \in BOOLEAN, pnone \in BOOLEAN :
            LET s == scripts[idx]
                a == AskForUpload(s, pall, pnone, singlescript)
                flagged == AskForUpload([s EXCEPT !.conflict = TRUE],
                                        pall, pnone, singlescript)
                hashless == AskForUpload([s EXCEPT !.conflict = FALSE,
                                                   !.lastSyncHash = Undefined],
                                         pall, pnone, singlescript)
            IN /\ IF ~s.conflict /\ Truthy(s.lastSyncHash)
                  THEN ~a.prompt /\ a.value = NO_CONFLICT
                  ELSE IF pall THEN ~a.prompt /\ a.value = FORCE_UPLOAD_ALL
                  ELSE IF pnone THEN ~a.prompt /\ a.value = FORCE_UPLOAD_NONE
                  ELSE a.prompt
               /\ flagged.prompt = hashless.prompt
               /\ flagged.value = hashless.value
               /\ flagged.answers = hashless.answers
    /\ Batch =>
         \A j \in 1..Len(decisions) :
            /\ InSeq(j, noConflict) <=> decisions[j] = NO_CONFLICT
            /\ decisions[j] = NO_CONFLICT <=> ~Unresolved0(j)
            /\ InSeq(j, prompted) <=>
                  (Unresolved0(j) /\ ~\E i \in 1..(j-1) : Latches(decisions[i]))
            /\ InSeq(j, prompted) =>
                  decisions[j] \in {FORCE_UPLOAD_YES, FORCE_UPLOAD_NO, FORCE_UPLOAD_ALL,
                                    FORCE_UPLOAD_NONE, NoSelection}

C14_Witness ==
    /\ pc = "resolved"
    /\ Len(scripts0) = 3
    /\ ~Unresolved0(1)
    /\ scripts0[2].conflict /\ Truthy(scripts0[2].lastSyncHash)
    /\ ~scripts0[3].conflict /\ ~Truthy(scripts0[3].lastSyncHash)
    /\ decisions = <<NO_CONFLICT, FORCE_UPLOAD_NO, FORCE_UPLOAD_NO>>
    /\ noConflict = <<1>>

\* C15: every decision has exactly its routing effect: Yes and remembered Yes
\* append the script to forceUpload and set forceUpload=true, conflict=false;
\* 'No conflict' appends it to noConflict and leaves the record; No,
\* remembered No and a dismissal leave both arrays and the record; no
\* decision changes lastSyncHash, conflictMode or name of the script, nor any
\* record of another script.
C15_RoutingEffects ==
    [][Len(decisions') = Len(decisions) + 1 =>
         LET j == Len(decisions')
             v == decisions'[j]
         IN /\ Len(scripts') = Len(scripts)
            /\ \A k \in 1..Len(scripts) : k # j => scripts'[k] = scripts[k]
            /\ scripts'[j].lastSyncHash = scripts[j].lastSyncHash
            /\ scripts'[j].conflictMode = scripts[j].conflictMode
            /\ scripts'[j].name = scripts[j].name
            /\ v \in {FORCE_UPLOAD_YES, FORCE_UPLOAD_ALL} =>
                  /\ forceUpload' = Append(forceUpload, j)
                  /\ noConflict' = noConflict
                  /\ scripts'[j].forceUpload = TRUE
                  /\ scripts'[j].conflict = FALSE
            /\ v = NO_CONFLICT =>
                  /\ noConflict' = Append(noConflict, j)
                  /\ forceUpload' = forceUpload
                  /\ scripts'[j] = scripts[j]
            /\ v \in {FORCE_UPLOAD_NO, FORCE_UPLOAD_NONE, NoSelection} =>
                  /\ noConflict' = noConflict
                  /\ forceUpload' = forceUpload
                  /\ scripts'[j] = scripts[j]
            /\ v # FORCE_UPLOAD_ALL => all' = all
            /\ v \in {FORCE_UPLOAD_YES, FORCE_UPLOAD_NO, NO_CONFLICT} => none' = none
      ]_vars

C15_Witness ==
    /\ pc = "resolved"
    /\ Len(scripts0) = 3
    /\ decisions = <<NO_CONFLICT, FORCE_UPLOAD_YES, FORCE_UPLOAD_NO>>
    /\ scripts0[2].conflict /\ scripts0[3].conflict
    /\ ~scripts[2].conflict /\ scripts[2].forceUpload
    /\ scripts[3] = scripts0[3]

\* C17 (as claimed): when the cache file cannot be read for a reason other
\* than being missing, readHashValues shows no message and leaves the script
\* records it would leave for an empty cache file.
C17_UnreadableLikeEmpty ==
    (pc = "annotated" /\ rootPath /\ cacheFile = Unreadable) =>
        /\ warnings = 0
        /\ scripts = ReadHashValuesResult(scripts, server, rootPath, File(<<>>), conf).scripts

\* ------------------------------------------------- claims on the cache store
IsCall(e) == e.op \in {"readConflictModes", "readHashValues", "updateHashValues"}
\* the calls of the history, without the writes
CallsOf(h) == SelectSeq(h, IsCall)
NoWriteFailed == \A k \in 1..Len(hist) : hist[k].op # "writeFailed"
HasPrefix(line, p) == Len(line) >= Len(p) /\ SubSeq(line, 1, Len(p)) = p
\* the lines of a file content that are records of the identity name@srv
RecordsOf(content, name, srv) ==
    SelectSeq(Split(content, NL),
              LAMBDA line : HasPrefix(line, ScriptAtServer(name, srv) \o <<Colon>>))
Last(seq) == seq[Len(seq)]

\* C11 (as claimed): what updateHashValues was called with is what a
\* following readHashValues yields: when readHashValues is the call after
\* updateHashValues, with a readable cache file and no failed write, every
\* non-exempt script of the read batch that the update batch named has the
\* lastSyncHash of the update batch.
C11_RoundTrip ==
    (pc = "cache" /\ rootPath /\ conf.isArray /\ cacheFile.state = "ok" /\ NoWriteFailed) =>
        LET c == CallsOf(hist) IN
        \A k \in 1..(Len(c) - 1) :
            (c[k].op = "updateHashValues" /\ c[k+1].op = "readHashValues") =>
                \A i \in 1..Len(c[k].batch), j \in 1..Len(c[k+1].result) :
                    ( /\ c[k].batch[i].name = c[k+1].result[j].name
                      /\ ~IndexOfGE0(conf.list, c[k].batch[i].name) ) =>
                        c[k+1].result[j].lastSyncHash = c[k].batch[i].lastSyncHash

\* C13 (as claimed): the cache file holds at most one record per identity
\* (name, server), for every name, names containing ':' included.
C13_OneRecordPerIdentity ==
    (pc = "cache" /\ cacheFile.state = "ok") =>
        \A name \in CacheNames : Len(RecordsOf(cacheFile.content, name, server)) <= 1

KnownLines ==
    {<<>>}
    \cup {Split(hist[1].content, NL)[m] : m \in 1..Len(Split(hist[1].content, NL))}
    \cup UNION { {Line(hist[k].batch[i].name, server, ToStr(hist[k].batch[i].lastSyncHash)) :
                     i \in 1..Len(hist[k].batch)} :
                 k \in {k \in 1..Len(hist) : hist[k].op = "updateHashValues"} }

C20_MissingFileIsEmptyCache ==
    (pc = "cache" /\ rootPath /\ conf.isArray) =>
        \A k \in 2..Len(hist) :
            /\ (hist[k].op = "readHashValues" /\ hist[k].before = "ENOENT"
                  /\ Len(hist[k].batch) > 0) =>
                  \A i \in 1..Len(hist[k].result) :
                      IndexOfGE0(conf.list, hist[k].result[i].name)
                        \/ hist[k].result[i].lastSyncHash = hist[k].batch[i].lastSyncHash
            /\ (hist[k].op = "updateHashValues" /\ hist[k].before = "ENOENT") =>
                  /\ hist[k].wrote
                  /\ \A i \in 1..Len(hist[k].batch) :
                        IndexOfGE0(conf.list, hist[k].batch[i].name)
                          \/ RecordsOf(hist[k].content, hist[k].batch[i].name, server) # <<>>

\* C16: all and none are false when an invocation of ensureForceUpload starts,
\* whatever an earlier invocation or an invocation running at the same time
\* latched: the flags of an invocation are set exactly by its own decisions;
\* and within an invocation a flag that is true stays true.
C16_FlagsPerInvocation ==
    /\ [](pc = "invocations" =>
            \A k \in Callers :
                /\ (inv[k].pc = "reduce" /\ inv[k].idx = 1) =>
                      (~inv[k].b.all /\ ~inv[k].b.none)
                /\ inv[k].b.all <=>
                      \E i \in 1..Len(inv[k].decisions) :
                          inv[k].decisions[i] = FORCE_UPLOAD_ALL
                /\ inv[k].b.none <=>
                      \E i \in 1..Len(inv[k].decisions) :
                          inv[k].decisions[i] \in {FORCE_UPLOAD_NONE, NoSelection})
    /\ [][pc = "invocations" =>
            \A k \in Callers :
                inv'[k].run = inv[k].run =>
                    /\ inv[k].b.all => inv'[k].b.all
                    /\ inv[k].b.none => inv'[k].b.none]_vars

C16_Witness ==
    /\ pc = "invocations"
    /\ inv[1].pc = "reduce" /\ inv[1].idx = 2 /\ inv[1].b.all
    /\ inv[2].run = 3 /\ inv[2].prev.none
    /\ inv[2].pc = "quickPick" /\ inv[2].idx = 1
    /\ ~inv[2].b.all /\ ~inv[2].b.none

\* ------------------------------------------- claims on consecutive batches
\* C21 (as claimed): a script that had no lastSyncHash and was denied (No,
\* remembered No or a dismissed prompt) in the batch before is still
\* unresolved in this batch: readHashValues gives it no lastSyncHash and
\* askForUpload does not decide 'No conflict' for it.
C21_DeniedStaysUnresolved ==
    (Batch /\ hist # <<>>) =>
        \A j \in Last(hist) :
            /\ ~Truthy(scripts0[j].lastSyncHash)
            /\ Decided(j) => decisions[j] # NO_CONFLICT

\* the identities a cache file can hold records of
NameUniverse == {AllNames[k] : k \in 1..Len(AllNames)}
ServerUniverse == Servers \cup {<<"t">>}

\* the identity is one updateHashValues writes a record for: the server
\* argument and the name of a script of the batch that is neither exempt nor
\* flagged conflict
Touched(n, srv) ==
    /\ srv = server
    /\ \E i \in 1..Len(scripts) :
          /\ scripts[i].name = n
          /\ ~Exempt(n)
          /\ scripts[i].conflict # TRUE

\* C22: updateHashValues and the write it starts change only the records of
\* the identities (name, server argument) of the scripts of its batch that
\* are neither exempt nor flagged conflict: for every other identity (the
\* same name on another server, a name not in the batch, an exempt name, a
\* conflicted script) the records of the started write and of the cache file
\* after the write are the records the file had before; in particular no
\* record is created for an exempt name.
C22_OnlyInputIdentities ==
    [][(pc = "resolved" \/ pc = "updated") =>
         \A n \in NameUniverse, srv \in ServerUniverse :
            (~Touched(n, srv)) =>
                ( /\ RecordsOf(cacheFile'.content, n, srv)
                       = RecordsOf(cacheFile.content, n, srv)
                  /\ pendingWrite'.pending =>
                        RecordsOf(pendingWrite'.content, n, srv)
                          = RecordsOf(cacheFile.content, n, srv) )
      ]_vars

C22_Witness ==
    /\ pc = "updated"
    /\ ~pendingWrite.pending
    /\ Len(scripts) = 3
    /\ Exempt(scripts[3].name)
    /\ scripts[3].conflict = FALSE /\ scripts[3].lastSyncHash = Str(HashX)
    /\ scripts[2].conflict = FALSE
    /\ RecordsOf(cacheFile.content, scripts[3].name, server)
         = <<Line(scripts[3].name, server, HashY)>>
    /\ RecordsOf(cacheFile.content, scripts[2].name, server)
         = <<Line(scripts[2].name, server, ToStr(scripts[2].lastSyncHash))>>

\* the hash of a cache record of the identity name@srv: what follows 'name@srv:'
HashOfRecord(line, name, srv) ==
    SubSeq(line, Len(ScriptAtServer(name, srv)) + 2, Len(line))

\* C23 (as claimed): readHashValues, called in a workspace folder with the
\* exemption list, sets for every exempt name conflictMode=false and reads no
\* hash for it, whatever the server; for every other script it sets
\* lastSyncHash from the cache record of exactly this name and this server
\* and leaves lastSyncHash as it is when the file holds no such record.
C23_ExactIdentityAndExemption ==
    [][(pc = "created" /\ rootPath /\ conf.isArray) =>
         /\ Len(scripts') = Len(scripts)
         /\ \A i \in 1..Len(scripts) :
               IF IndexOfGE0(conf.list, scripts[i].name)
               THEN scripts'[i] = [scripts[i] EXCEPT !.conflictMode = FALSE]
               ELSE LET recs == RecordsOf(cacheFile.content, scripts[i].name, server)
                    IN scripts'[i] =
                          [scripts[i] EXCEPT !.lastSyncHash =
                              IF recs = <<>> THEN @
                              ELSE Str(HashOfRecord(Last(recs), scripts[i].name, server))]
      ]_vars

Denied(value) == value \in {FORCE_UPLOAD_NO, FORCE_UPLOAD_NONE, NoSelection}
ForcedBy(value) == value \in {FORCE_UPLOAD_YES, FORCE_UPLOAD_ALL}

\* C24: a script decided Yes or remembered Yes has conflict=false and
\* forceUpload=true from then on, a flagged script that was denied keeps
\* conflict=true; and when updateHashValues is then called on the batch (in a
\* workspace folder, the cache file readable, the exemption setting a list),
\* the write it starts holds for every force-uploaded script that is not
\* exempt exactly the record name@server:lastSyncHash, and for every denied
\* flagged script the records the file held before.
C24_ForcedIsRecorded ==
    /\ [](Batch =>
            \A j \in 1..Len(decisions) :
                /\ ForcedBy(decisions[j]) =>
                      (scripts[j].conflict = FALSE /\ scripts[j].forceUpload = TRUE)
                /\ (Denied(decisions[j]) /\ scripts0[j].conflict) =>
                      scripts[j].conflict = TRUE)
    /\ [][(pc = "resolved" /\ pc' = "updated" /\ rootPath /\ conf.isArray
             /\ cacheFile.state = "ok" /\ Len(scripts) > 0) =>
            /\ pendingWrite'.pending
            /\ \A j \in 1..Len(scripts) :
                  /\ (ForcedBy(decisions[j]) /\ ~Exempt(scripts[j].name)) =>
                        RecordsOf(pendingWrite'.content, scripts[j].name, server)
                          = <<Line(scripts[j].name, server,
                                   ToStr(scripts[j].lastSyncHash))>>
                  /\ (Denied(decisions[j]) /\ scripts0[j].conflict) =>
                        RecordsOf(pendingWrite'.content, scripts[j].name, server)
                          = RecordsOf(cacheFile.content, scripts[j].name, server)
         ]_vars

C24_Witness ==
    /\ pc = "updated"
    /\ ~pendingWrite.pending
    /\ Len(scripts0) = 2
    /\ scripts0[1].conflict /\ scripts0[2].conflict
    /\ Truthy(scripts0[1].lastSyncHash)
    /\ decisions = <<FORCE_UPLOAD_YES, FORCE_UPLOAD_NO>>
    /\ ~Exempt(scripts[1].name)
    /\ RecordsOf(cacheFile.content, scripts[1].name, server)
         = <<Line(scripts[1].name, server, ToStr(scripts[1].lastSyncHash))>>
    /\ RecordsOf(cacheFile.content, scripts[2].name, server) = <<>>

\* how often x is in seq
Count(x, seq) == Cardinality({k \in 1..Len(seq) : seq[k] = x})

\* C25: every script of a batch is resolved exactly once and its outcome is
\* final: it is prompted for at most once and is in at most one of the two
\* arrays, at most once; only decided scripts are in the arrays; when the
\* batch is resolved every script has exactly one decision; and no later step
\* of the batch (a later decision, a policy latch, the update of the cache)
\* changes the decision, the record, the array or the prompt of a script that
\* was decided before.
C25_ResolvedOnceAndFinal ==
    /\ [](Batch =>
            /\ \A j \in 1..Len(scripts) :
                  /\ Count(j, prompted) <= 1
                  /\ Count(j, noConflict) + Count(j, forceUpload) <= 1
                  /\ (InSeq(j, noConflict) \/ InSeq(j, forceUpload)) => Decided(j)
            /\ Len(decisions) <= Len(scripts)
            /\ (pc = "resolved" \/ pc = "updated") => Len(decisions) = Len(scripts))
    /\ [][(Batch /\ Batch') =>
            /\ Len(decisions') \in {Len(decisions), Len(decisions) + 1}
            /\ \A j \in 1..Len(decisions) :
                  /\ decisions'[j] = decisions[j]
                  /\ scripts'[j] = scripts[j]
                  /\ InSeq(j, noConflict') <=> InSeq(j, noConflict)
                  /\ InSeq(j, forceUpload') <=> InSeq(j, forceUpload)
                  /\ Count(j, prompted') = Count(j, prompted)
         ]_vars

C25_Witness ==
    /\ pc = "resolved"
    /\ Len(scripts0) = 3
    /\ scripts0[1].conflict
    /\ decisions = <<FORCE_UPLOAD_NO, FORCE_UPLOAD_ALL, FORCE_UPLOAD_ALL>>
    /\ prompted = <<1, 2>>
    /\ forceUpload = <<2, 3>>
    /\ scripts[1] = scripts0[1]

\* C26: a quick pick of a batch of exactly one script offers Yes and No, a
\* quick pick of any other batch Yes, No, remembered Yes and remembered No;
\* apart from the choices offered askForUpload does the same for a single
\* script and for a script of a longer batch (prompt or not, value, question);
\* and the answers Yes, No and a dismissal route the script as they route it
\* when it is a batch of its own: same record, same array, same flags.
C26_SingleOnlyChangesChoices ==
    /\ Batch => (singlescript <=> Len(scripts) = 1)
    /\ pc = "quickPick" =>
         /\ AskForUpload(scripts[idx], all, none, singlescript).answers
              = IF Len(scripts) = 1
                THEN <<FORCE_UPLOAD_YES, FORCE_UPLOAD_NO>>
                ELSE <<FORCE_UPLOAD_YES, FORCE_UPLOAD_NO,
                       FORCE_UPLOAD_ALL, FORCE_UPLOAD_NONE>>
         /\ \A v \in {FORCE_UPLOAD_YES, FORCE_UPLOAD_NO, NoSelection} :
               LET alone == Route(BatchState(<<scripts[idx]>>), 1, v)
                   here == Route(Current, idx, v)
               IN /\ alone.scripts[1] = here.scripts[idx]
                  /\ InSeq(1, alone.forceUpload) <=> InSeq(idx, here.forceUpload)
                  /\ InSeq(1, alone.noConflict) <=> InSeq(idx, here.noConflict)
                  /\ alone.all = here.all
                  /\ alone.none = here.none
    /\ (pc = "reduce" /\ idx <= Len(scripts)) =>
         \A pall \in BOOLEAN, pnone \in BOOLEAN :
            LET one == AskForUpload(scripts[idx], pall, pnone, TRUE)
                many == AskForUpload(scripts[idx], pall, pnone, FALSE)
            IN /\ one.prompt = many.prompt
               /\ one.value = many.value
               /\ one.question = many.question

C26_Witness ==
    /\ pc = "resolved"
    /\ Len(scripts0) = 1
    /\ singlescript
    /\ prompted = <<1>>
    /\ decisions = <<FORCE_UPLOAD_YES>>
    /\ forceUpload = <<1>>

\* C27: when every quick pick that is shown is answered or dismissed in the
\* end, every invocation of ensureForceUpload (the empty batch included, and
\* whatever the answers) resolves its two arrays in the end; and it resolves
\* them only when every script of the batch has its decision.
C27_EventuallyResolves ==
    /\ (pc = "reduce") ~> (pc = "resolved")
    /\ []((pc = "resolved" \/ pc = "updated") =>
            /\ idx = Len(scripts) + 1
            /\ Len(decisions) = Len(scripts)
            /\ \A j \in 1..Len(scripts) :
                  Unresolved0(j) =>
                      decisions[j] \in {FORCE_UPLOAD_YES, FORCE_UPLOAD_NO, FORCE_UPLOAD_ALL,
                                        FORCE_UPLOAD_NONE, NoSelection})

C27_Witness ==
    /\ pc = "resolved"
    /\ Len(scripts0) = 3
    /\ prompted = <<1, 2, 3>>
    /\ decisions = <<FORCE_UPLOAD_YES, FORCE_UPLOAD_NO, NoSelection>>

\* the updateHashValues calls of the history that started a write
UpdatesThatWrote == {k \in 1..Len(hist) : hist[k].op = "updateHashValues" /\ hist[k].wrote}

\* C28 (as claimed): updateHashValues calls are made one after the other,
\* each after the one before returned.  The read of a later call sees what an
\* earlier call wrote: the write a later call starts holds a record for every
\* non-exempt script of every earlier call; and when all writes have landed
\* the cache file holds a record for every non-exempt script of every call.
C28_SerialUpdatesMerge ==
    pc = "cache" =>
        /\ \A k \in UpdatesThatWrote, m \in UpdatesThatWrote :
              k < m =>
                 \A i \in 1..Len(hist[k].batch) :
                    IndexOfGE0(conf.list, hist[k].batch[i].name)
                      \/ RecordsOf(hist[m].content, hist[k].batch[i].name, server) # <<>>
        /\ (inflight = <<>> /\ NoWriteFailed) =>
              \A k \in UpdatesThatWrote : \A i \in 1..Len(hist[k].batch) :
                 IndexOfGE0(conf.list, hist[k].batch[i].name)
                   \/ RecordsOf(cacheFile.content, hist[k].batch[i].name, server) # <<>>

\* C29: the flags all and none of a batch are never both true: after a
\* remembered Yes no later decision is a remembered No or a dismissal, after
\* a remembered No or a dismissal no later decision is a remembered Yes; and
\* no step sets none while all is set, or all while none is set.
C29_AllAndNoneExclusive ==
    /\ [](~(all /\ none))
    /\ [](Batch =>
            \A i \in 1..Len(decisions) : \A j \in (i+1)..Len(decisions) :
                /\ decisions[i] = FORCE_UPLOAD_ALL =>
                      decisions[j] \notin {FORCE_UPLOAD_NONE, NoSelection}
                /\ decisions[i] \in {FORCE_UPLOAD_NONE, NoSelection} =>
                      decisions[j] # FORCE_UPLOAD_ALL)
    /\ [][(Batch /\ Batch') =>
            /\ all => (all' /\ ~none')
            /\ none => (none' /\ ~all')
         ]_vars

C29_Witness ==
    /\ pc = "resolved"
    /\ Len(scripts0) = 3
    /\ Unresolved0(1) /\ Unresolved0(2) /\ Unresolved0(3)
    /\ decisions = <<FORCE_UPLOAD_NO, FORCE_UPLOAD_NONE, FORCE_UPLOAD_NONE>>
    /\ none /\ ~all

\* C30 (as claimed): ensureUploadOnSave resolves without a quick pick 'no'
\* for a script name that is in uploadManually (also when it is in
\* uploadOnSave as well) and 'yes' for a name that is only in uploadOnSave;
\* and for a script the user answered 'Always upload' (resp. 'Never upload')
\* for before the call, it resolves 'yes' (resp. 'no') without a quick pick.
C30_SettingsAndRememberedAnswers ==
    pc = "save" =>
        \A k \in 1..Len(saves) :
            LET c == saves[k] IN
            /\ IndexOfGE0(c.never, c.scriptname) =>
                  (~c.asked /\ c.state = "resolved" /\ c.answer = "no")
            /\ (IndexOfGE0(c.always, c.scriptname) /\ ~IndexOfGE0(c.never, c.scriptname)) =>
                  (~c.asked /\ c.state = "resolved" /\ c.answer = "yes")
            /\ [scriptname |-> c.scriptname, choice |-> ALWAYS] \in c.known =>
                  (~c.asked /\ c.state = "resolved" /\ c.answer = "yes")
            /\ [scriptname |-> c.scriptname, choice |-> NEVER] \in c.known =>
                  (~c.asked /\ c.state = "resolved" /\ c.answer = "no")

\* C31 (as claimed): every ensureUploadOnSave call whose quick pick has
\* returned, or that showed none, is settled: resolved with yes, no or never,
\* or rejected; also when the quick pick was dismissed.
C31_SettlesAfterPrompt ==
    pc = "save" =>
        \A k \in 1..Len(saves) :
            saves[k].state # "prompt" =>
                \/ saves[k].state = "rejected"
                \/ saves[k].state = "resolved" /\ saves[k].answer \in {"yes", "no", "never"}

\* ------------------------------------------------------- claims on the login
\* C32: saving the login data never overwrites an existing launch.json:
\* createLaunchJson writes the file only when fs.stat found none and rejects
\* otherwise, and when saving failed getLoginData has warned and resolved.
C32_NeverOverwritesAndGoesOn ==
    /\ [](pc = "login" =>
            /\ flow.saved = "written" => flow.statSaw = "ENOENT"
            /\ flow.statSaw \in {"none", "EACCES"} => flow.saved = "failed"
            /\ flow.saved = "failed" => flow.warned /\ flow.got = "resolved")
    /\ [][pc = "login" /\ launchJson' # launchJson => ~launchJson.exists
         ]_vars

\* the login data was typed in, launch.json existed, nothing was written,
\* the warning was shown and the call went on to resolve
C32_Witness ==
    /\ pc = "login"
    /\ flow.asked = "loginData"
    /\ flow.statSaw = "none"
    /\ flow.saved = "failed"
    /\ flow.warned
    /\ launchJson.exists
    /\ flow.at = "resolved"

\* C33 (as claimed): ensureLoginInformation resolves only with complete login
\* data whose password is not the ask-for-password placeholder, and it rejects
\* when an input box was cancelled.
C33_ResolvesOnlyWithPassword ==
    pc = "login" =>
        /\ flow.at = "resolved" =>
              /\ CheckLoginData(flow.settledWith)
              /\ flow.settledWith.password # AskForPasswordStr
        /\ flow.cancelled => flow.at = "rejected"

\* C34 (as claimed): when an input box of askForLoginData was cancelled the
\* call has rejected and the login data is what it was before the call.
C34_CancelLeavesLoginData ==
    pc = "login" =>
        (flow.asked = "loginData" /\ flow.cancelled =>
            flow.at = "rejected" /\ loginData = flow.before)

\* ---------------------------------------------- claims on the server console
\* the positions of the history with the event op of invocation by
EventsOf(op, by) ==
    {i \in 1..Len(consoleLog) : consoleLog[i].op = op /\ consoleLog[i].by = by}

\* C35 (as claimed): a connect on the server console comes after the completed
\* disconnect of its own invocation and goes to the first 'janus' configuration
\* of launch.json, which has host and port; and between two connects a
\* disconnect was issued and has completed.
C35_ConnectAfterDisconnect ==
    pc = "console" =>
        \A j \in 1..Len(consoleLog) :
            consoleLog[j].op = "connect" =>
                /\ \E e \in EventsOf("disconnected", consoleLog[j].by) : e < j
                /\ consoleLog[j].hostname # "" /\ consoleLog[j].port # 0
                /\ \A i \in 1..(j-1) :
                      consoleLog[i].op = "connect" =>
                          \E d \in (i+1)..(j-1) :
                              /\ consoleLog[d].op = "disconnect"
                              /\ \E e \in EventsOf("disconnected", consoleLog[d].by) :
                                    d < e /\ e < j

====
